---- MODULE Spec2Model ----
(***************************************************************************)
(* Rules engine of the life-insurance recommendation service               *)
(* (backend/src/services/recommendationService.ts) as a state machine.     *)
(*                                                                         *)
(* Numbers.  The engine computes in IEEE doubles.  Every constant of the   *)
(* engine is a short decimal, so the model computes with exact rationals:  *)
(*   dependentsFactor  in quarters    (1 + d * 0.25  = (4 + d) / 4)        *)
(*   riskAdjustment    in fifths      (1.2, 1.0, 0.8 = 6/5, 5/5, 4/5)      *)
(*   premium factors   in the units named at their definitions.            *)
(* Products that exceed the 32-bit integers of the model checker are       *)
(* carried as little-endian sequences of base-10^4 limbs.                  *)
(***************************************************************************)
EXTENDS Integers, Sequences, FiniteSets, TLC

VARIABLES
    locale,     \* default locale of the Node process (fixed at start-up)
    profile,    \* the UserProfile handed to calculateRecommendation
    pc,         \* "called": invocation pending, "returned": value returned
    response,   \* <<>> while pending, <<RecommendationResponse>> afterwards
    earlier,    \* <<>> or <<[profile, response]>> of the preceding invocation
    logged,     \* records handed to the shared logger since the invocation
                \* in progress was requested (the logger writes a record to
                \* the console when its level admits it; info is admitted
                \* unless LOG_LEVEL is set stricter)
    options,    \* <<>> or the array returned by compareOptions
    calls,      \* concurrent callers of the shared instance:
                \* caller -> [profile, pc, response]
    alone,      \* profile -> response of an invocation on a fresh process
    request,    \* the HTTP request the router is serving, <<>> if none
    stage,      \* how far the request has got through the route's chain
    user,       \* <<>> or <<req.user>>, the decoded token payload
    reply,      \* <<>> or <<[status, body]>>, the response sent
    rows,       \* the committed rows of table recommendations
    pending,    \* rows inserted by the open transaction
    nextId,     \* next value of the id sequence of table recommendations
    statements, \* SQL statements issued while serving the request
    checkedOut, \* clients checked out of the connection pool
    thrown,     \* <<>> or <<error>> caught by the handler
    cookie,     \* the browser holds a cookie named token
    storage,    \* the browser's localStorage holds an item named token
    location,   \* <<>> or the URL in the address bar: [pathname, redirect]
    page,       \* "closed", or how far the navigation to location has got
    users,      \* table users: [rows, nextval of the id sequence]
    registrations, \* the POST /api/auth/register requests being served:
                \* registrant -> [body, pc, email, thrown, reply]
    server,     \* the HTTP server: [state, connections, listeners of 'close']
    pool,       \* the connection pool db: [state, clients checked out]
    signals,    \* the signals received; each has armed a 10-second timer
    exited      \* <<>> while the process runs, <<code>> once it has exited

engineVars == <<locale, profile, pc, response, earlier, logged, options>>

callerVars == <<calls, alone>>

apiVars ==
    <<request, stage, user, reply, rows, pending, nextId, statements, checkedOut, thrown>>

browserVars == <<cookie, storage, location, page>>

authVars == <<users, registrations>>

processVars == <<server, pool, signals, exited>>

siteVars == <<browserVars, authVars, processVars>>

vars == <<engineVars, callerVars, apiVars, siteVars>>

----------------------------------------------------------------------------
(* Bounds of the model *)

MaxDependents == 3

\* callers of the shared service instance, and invocations they make in all
NumCallers == 2

MaxInvocations == 3

\* values the id sequence of table recommendations hands out
MaxRows == 1

\* the same, where the history of several users is followed
MaxHistory == 2

----------------------------------------------------------------------------
(* Domain of a validated request body *)

MIN_AGE == 18
MAX_AGE == 100

----------------------------------------------------------------------------
(* Arithmetic on naturals wider than 32 bits: little-endian base-10^4 limbs *)

LimbBase == 10 * 10 * 10 * 10

RECURSIVE Log10(_)
Log10(n) == IF n < 10 THEN 0 ELSE 1 + Log10(n \div 10)

LimbDigits == Log10(LimbBase)

RECURSIVE BigFromInt(_)
BigFromInt(n) ==
    IF n = 0 THEN <<>> ELSE <<n % LimbBase>> \o BigFromInt(n \div LimbBase)

RECURSIVE BigToInt(_)
BigToInt(a) ==
    IF a = <<>> THEN 0 ELSE Head(a) + LimbBase * BigToInt(Tail(a))

\* Sequences of limbs are processed by halves, which keeps the depth of
\* evaluation logarithmic in their length.

\* a * k + carry for a non-empty a: the limbs of a's length and the carry out
RECURSIVE MulLimbs(_, _, _)
MulLimbs(a, k, carry) ==
    IF Len(a) = 1
    THEN LET t == a[1] * k + carry
         IN  [limbs |-> <<t % LimbBase>>, carry |-> t \div LimbBase]
    ELSE LET half == Len(a) \div 2
             low == MulLimbs(SubSeq(a, 1, half), k, carry)
             high == MulLimbs(SubSeq(a, half + 1, Len(a)), k, low.carry)
         IN  [limbs |-> low.limbs \o high.limbs, carry |-> high.carry]

\* a * k + carry, for a small k (k * LimbBase within 32 bits)
BigMulSmall(a, k, carry) ==
    IF a = <<>>
    THEN BigFromInt(carry)
    ELSE LET product == MulLimbs(a, k, carry)
         IN  product.limbs \o BigFromInt(product.carry)

RECURSIVE BigStrip(_)
BigStrip(a) ==
    IF a # <<>> /\ a[Len(a)] = 0 THEN BigStrip(SubSeq(a, 1, Len(a) - 1)) ELSE a

\* long division of the limbs lo..hi of a by a small k, from the most
\* significant limb, given the remainder carried in
RECURSIVE BigDivLoop(_, _, _, _, _)
BigDivLoop(a, k, lo, hi, rem) ==
    IF lo = hi
    THEN LET t == rem * LimbBase + a[lo]
         IN  [limbs |-> <<t \div k>>, rem |-> t % k]
    ELSE LET mid == (lo + hi) \div 2
             high == BigDivLoop(a, k, mid + 1, hi, rem)
             low == BigDivLoop(a, k, lo, mid, high.rem)
         IN  [limbs |-> low.limbs \o high.limbs, rem |-> low.rem]

\* floor(a / k) for a small k
BigDivSmall(a, k) ==
    IF a = <<>> THEN <<>> ELSE BigStrip(BigDivLoop(a, k, 1, Len(a), 0).limbs)

\* a * LimbBase^n
BigShift(a, n) == IF a = <<>> THEN a ELSE [i \in 1..n |-> 0] \o a

\* floor(a / LimbBase^n)
BigDrop(a, n) == IF n >= Len(a) THEN <<>> ELSE SubSeq(a, n + 1, Len(a))

RECURSIVE BigMulPow(_, _, _)
BigMulPow(a, k, n) == IF n = 0 THEN a ELSE BigMulPow(BigMulSmall(a, k, 0), k, n - 1)

RECURSIVE BigDivPow(_, _, _)
BigDivPow(a, k, n) == IF n = 0 THEN a ELSE BigDivPow(BigDivSmall(a, k), k, n - 1)

\* a * 10^s  and  floor(a / 10^s)
BigMulPow10(a, s) == BigShift(BigMulPow(a, 10, s % LimbDigits), s \div LimbDigits)
BigDivPow10(a, s) == BigDivPow(BigDrop(a, s \div LimbDigits), 10, s % LimbDigits)

BigLimb(a, i) == IF i <= Len(a) THEN a[i] ELSE 0

\* the limbs lo..hi of a + b + carry, and the carry out
RECURSIVE AddLimbs(_, _, _, _, _)
AddLimbs(a, b, lo, hi, carry) ==
    IF lo = hi
    THEN LET t == BigLimb(a, lo) + BigLimb(b, lo) + carry
         IN  [limbs |-> <<t % LimbBase>>, carry |-> t \div LimbBase]
    ELSE LET mid == (lo + hi) \div 2
             low == AddLimbs(a, b, lo, mid, carry)
             high == AddLimbs(a, b, mid + 1, hi, low.carry)
         IN  [limbs |-> low.limbs \o high.limbs, carry |-> high.carry]

BigAdd(a, b, carry) ==
    IF a = <<>> /\ b = <<>>
    THEN BigFromInt(carry)
    ELSE LET sum == AddLimbs(a, b, 1, IF Len(a) >= Len(b) THEN Len(a) ELSE Len(b), carry)
         IN  sum.limbs \o BigFromInt(sum.carry)

RECURSIVE BigMulLong(_, _)
BigMulLong(a, b) ==
    IF a = <<>> \/ b = <<>> THEN <<>>
    ELSE IF Len(b) = 1 THEN BigMulSmall(a, b[1], 0)
    ELSE LET half == Len(b) \div 2
         IN  BigAdd(BigMulLong(a, SubSeq(b, 1, half)),
                    BigShift(BigMulLong(a, SubSeq(b, half + 1, Len(b))), half), 0)

BigMul(a, b) == IF Len(b) > Len(a) THEN BigMulLong(b, a) ELSE BigMulLong(a, b)

----------------------------------------------------------------------------
(* Exact values of the engine's doubles.  Every constant of the engine is a *)
(* finite decimal and the only other value is Math.pow(1.045, n), so each    *)
(* double is carried as  num / 10^e * 1.045^p  (num a natural, p an integer) *)

AgeBaseMilli == 1045    \* the literal 1.045, in thousandths

\* k^n by halving the exponent
RECURSIVE BigPow(_, _)
BigPow(k, n) ==
    IF n = 0 THEN <<1>>
    ELSE IF n = 1 THEN <<k>>
    ELSE BigMul(BigPow(k, n \div 2), BigPow(k, n - n \div 2))

Pow1045 == [n \in 0..(MAX_AGE - 25) |-> BigPow(AgeBaseMilli, n)]

Dec(k, s) == [num |-> BigFromInt(k), e |-> s, p |-> 0]      \* k / 10^s

RealOfInt(n) == Dec(n, 0)

RealMul(x, y) == [num |-> BigMul(x.num, y.num), e |-> x.e + y.e, p |-> x.p + y.p]

RealAdd1(k, x) == \* k + x for an integer k and a finite decimal x
    [x EXCEPT !.num = BigAdd(BigMulPow10(BigFromInt(k), x.e), @, 0)]

RealDivPow10(x, s) == [x EXCEPT !.e = @ + s]                \* x / 10^s

RECURSIVE Pow10(_)
Pow10(s) == IF s = 0 THEN 1 ELSE 10 * Pow10(s - 1)

\* x - k for an integer k and a finite decimal x >= k that fits 32 bits
RealSubInt(x, k) == [x EXCEPT !.num = BigFromInt(BigToInt(@) - k * Pow10(x.e))]

\* Math.pow(1.045, n)
MathPowAge(n) == [num |-> <<1>>, e |-> 0, p |-> n]

\* floor of a non-negative value; nested floors of integer quotients are exact
RealFloor(x) ==
    BigToInt(IF x.p >= 0
             THEN BigDivPow10(BigMul(x.num, Pow1045[x.p]), x.e + 3 * x.p)
             ELSE BigDivPow(BigDivPow10(BigMulPow10(x.num, 3 * (-x.p)), x.e),
                            AgeBaseMilli, -x.p))

\* Math.round on a non-negative double: nearest integer, a tie goes up
MathRound(x) == (RealFloor([x EXCEPT !.num = BigMulSmall(@, 2, 0)]) + 1) \div 2

\* canonical form of a finite decimal (no trailing zero digit), for comparing
RECURSIVE RealNorm(_)
RealNorm(x) ==
    IF x.num = <<>> THEN [x EXCEPT !.e = 0]
    ELSE IF x.e > 0 /\ Head(x.num) % 10 = 0
         THEN RealNorm([x EXCEPT !.num = BigDivSmall(@, 10), !.e = @ - 1])
         ELSE x

MathMax(a, b) == IF a >= b THEN a ELSE b
MathMin(a, b) == IF a <= b THEN a ELSE b

----------------------------------------------------------------------------
(* Inputs *)

Ages == MIN_AGE..MAX_AGE

Incomes ==
    {0, 1, 3333, 3334, 7000, 75000, 75001, 150000, 150001,
     200000, 200001, 250000, 300000}

RiskTolerances == {"low", "medium", "high"}

Profiles ==
    [age : Ages, income : Incomes, dependents : 0..MaxDependents,
     riskTolerance : RiskTolerances]

\* the smaller input space of the two-invocation specification
PairAges == {18, 34, 35, 44, 45, 54, 55, 56, 100}

PairProfiles ==
    [age : PairAges, income : {75000, 250000}, dependents : {0, 2},
     riskTolerance : RiskTolerances]

\* the input space of the option comparison: both sides of every age band
CompareAges == {18, 29, 30, 34, 35, 39, 40, 49, 50, 100}

CompareProfiles ==
    [age : CompareAges, income : Incomes, dependents : 0..MaxDependents,
     riskTolerance : RiskTolerances]

\* the profiles concurrent callers draw from
ConcurrentProfiles ==
    {[age |-> 25, income |-> 75000, dependents |-> 2, riskTolerance |-> "low"],
     [age |-> 55, income |-> 75000, dependents |-> 2, riskTolerance |-> "high"]}

Locales == {"en-US", "de-DE"}

----------------------------------------------------------------------------
(* class RecommendationService *)

BASE_MULTIPLIERS == [young |-> 15, midAge |-> 12, mature |-> 10, senior |-> 8]

\* variant of RISK_ADJUSTMENTS with the entries of low and high exchanged
RISK_ADJUSTMENTS_Reversed == [low |-> Dec(8, 1), medium |-> Dec(10, 1), high |-> Dec(12, 1)]

RISK_ADJUSTMENTS == [low |-> Dec(12, 1), medium |-> Dec(10, 1), high |-> Dec(8, 1)]

DEPENDENT_MULTIPLIER == Dec(25, 2)

MIN_COVERAGE == 100000

INCOME_CAP_MULTIPLIER == 30

\* variant of getIncomeMultiplier with the multiplier of the README's example
getIncomeMultiplier_Documented(age) ==
    IF age < 30 THEN BASE_MULTIPLIERS.young
    ELSE IF age < 40 THEN BASE_MULTIPLIERS.mature
    ELSE IF age < 50 THEN BASE_MULTIPLIERS.mature
    ELSE BASE_MULTIPLIERS.senior

\* variant of getIncomeMultiplier that keeps the age of the first invocation in
\* a field of the instance
getIncomeMultiplier_Memoised(age) ==
    LET memo == IF logged = <<>> THEN age ELSE logged[1].meta.age
    IN  IF memo < 30 THEN BASE_MULTIPLIERS.young
        ELSE IF memo < 40 THEN BASE_MULTIPLIERS.midAge
        ELSE IF memo < 50 THEN BASE_MULTIPLIERS.mature
        ELSE BASE_MULTIPLIERS.senior

getIncomeMultiplier(age) ==
    IF age < 30 THEN BASE_MULTIPLIERS.young
    ELSE IF age < 40 THEN BASE_MULTIPLIERS.midAge
    ELSE IF age < 50 THEN BASE_MULTIPLIERS.mature
    ELSE BASE_MULTIPLIERS.senior

\* variants of calculateCoverage with one step changed
calculateCoverage_NoCap(income, incomeMultiplier, dependentsFactor, riskAdjustment) ==
    LET raw == RealMul(RealMul(RealMul(RealOfInt(income), RealOfInt(incomeMultiplier)),
                               dependentsFactor),
                       riskAdjustment)
        rounded == MathRound(RealDivPow10(raw, 4)) * 10000
    IN  MathMax(rounded, MIN_COVERAGE)

calculateCoverage_CapThenFloor(income, incomeMultiplier, dependentsFactor, riskAdjustment) ==
    LET raw == RealMul(RealMul(RealMul(RealOfInt(income), RealOfInt(incomeMultiplier)),
                               dependentsFactor),
                       riskAdjustment)
        rounded == MathRound(RealDivPow10(raw, 4)) * 10000
        maxCoverage == income * INCOME_CAP_MULTIPLIER
    IN  MathMax(MathMin(rounded, maxCoverage), MIN_COVERAGE)

calculateCoverage_Truncating(income, incomeMultiplier, dependentsFactor, riskAdjustment) ==
    LET raw == RealMul(RealMul(RealMul(RealOfInt(income), RealOfInt(incomeMultiplier)),
                               dependentsFactor),
                       riskAdjustment)
        rounded == RealFloor(RealDivPow10(raw, 4)) * 10000
        floored == MathMax(rounded, MIN_COVERAGE)
        maxCoverage == income * INCOME_CAP_MULTIPLIER
    IN  MathMin(floored, maxCoverage)

\* a running total kept across invocations instead of a local
calculateCoverage_Accumulating(income, incomeMultiplier, dependentsFactor, riskAdjustment) ==
    LET raw == RealMul(RealMul(RealMul(RealOfInt(income), RealOfInt(incomeMultiplier)),
                               dependentsFactor),
                       riskAdjustment)
        carried == IF earlier = <<>> THEN 0 ELSE earlier[1].response.recommendation.coverage
        rounded == MathRound(RealDivPow10(raw, 4)) * 10000 + carried
        floored == MathMax(rounded, MIN_COVERAGE)
        maxCoverage == income * INCOME_CAP_MULTIPLIER
    IN  MathMin(floored, maxCoverage)

calculateCoverage(income, incomeMultiplier, dependentsFactor, riskAdjustment) ==
    LET raw == RealMul(RealMul(RealMul(RealOfInt(income), RealOfInt(incomeMultiplier)),
                               dependentsFactor),
                       riskAdjustment)
        rounded == MathRound(RealDivPow10(raw, 4)) * 10000
        floored == MathMax(rounded, MIN_COVERAGE)
        maxCoverage == income * INCOME_CAP_MULTIPLIER
    IN  MathMin(floored, maxCoverage)

\* variants of determineTerm: inclusive bounds; two bands exchanged
determineTerm_Inclusive(age) ==
    IF age <= 35 THEN 30
    ELSE IF age <= 45 THEN 20
    ELSE IF age <= 55 THEN 15
    ELSE 10

determineTerm_Exchanged(age) ==
    IF age < 35 THEN 30
    ELSE IF age < 45 THEN 15
    ELSE IF age < 55 THEN 20
    ELSE 10

determineTerm(age) ==
    IF age < 35 THEN 30
    ELSE IF age < 45 THEN 20
    ELSE IF age < 55 THEN 15
    ELSE 10

\* variant of determineInsuranceType without the age condition
determineInsuranceType_NoAge(p) ==
    IF p.riskTolerance = "low" /\ p.income > 150000 THEN "Whole Life"
    ELSE IF p.riskTolerance = "medium" /\ p.income > 200000 THEN "Universal Life"
    ELSE "Term Life"

\* the value of a function that ends without a return statement
undefined == "undefined"

\* variant of determineInsuranceType without the final return
determineInsuranceType_NoDefault(p) ==
    IF p.riskTolerance = "low" /\ p.income > 150000 THEN "Whole Life"
    ELSE IF p.riskTolerance = "medium" /\ p.income > 200000 /\ p.age < 50
         THEN "Universal Life"
    ELSE undefined

determineInsuranceType(p) ==
    IF p.riskTolerance = "low" /\ p.income > 150000 THEN "Whole Life"
    ELSE IF p.riskTolerance = "medium" /\ p.income > 200000 /\ p.age < 50
         THEN "Universal Life"
    ELSE "Term Life"

\* variant of getPremiumFactors with the term factors of 10 and 30 years exchanged
getPremiumFactors_TermExchanged(age, term, type) ==
    [basePremiumRate |-> Dec(5, 1),
     ageFactor       |-> MathPowAge(age - 25),
     termFactor      |-> CASE term = 10 -> Dec(9, 1)
                           [] term = 15 -> Dec(11, 1)
                           [] term = 20 -> Dec(10, 1)
                           [] term = 30 -> Dec(12, 1)
                           [] OTHER     -> Dec(10, 1),
     typeFactor      |-> CASE type = "Term Life"      -> Dec(10, 1)
                           [] type = "Whole Life"     -> Dec(35, 1)
                           [] type = "Universal Life" -> Dec(25, 1)
                           [] OTHER                   -> Dec(10, 1),
     healthFactor    |-> Dec(10, 1)]

getPremiumFactors(age, term, type) ==
    [basePremiumRate |-> Dec(5, 1),
     ageFactor       |-> MathPowAge(age - 25),
     termFactor      |-> CASE term = 10 -> Dec(12, 1)
                           [] term = 15 -> Dec(11, 1)
                           [] term = 20 -> Dec(10, 1)
                           [] term = 30 -> Dec(9, 1)
                           [] OTHER     -> Dec(10, 1),
     typeFactor      |-> CASE type = "Term Life"      -> Dec(10, 1)
                           [] type = "Whole Life"     -> Dec(35, 1)
                           [] type = "Universal Life" -> Dec(25, 1)
                           [] OTHER                   -> Dec(10, 1),
     healthFactor    |-> Dec(10, 1)]

calculatePremium(age, coverage, term, type, riskTolerance) ==
    LET factors == getPremiumFactors(age, term, type)
        coverageUnits == RealDivPow10(RealOfInt(coverage), 3)
        base == RealMul(coverageUnits, factors.basePremiumRate)
        aged == RealMul(base, factors.ageFactor)
        termed == RealMul(aged, factors.termFactor)
        typed == RealMul(termed, factors.typeFactor)
        healthy == RealMul(typed, factors.healthFactor)
        loaded == IF riskTolerance = "high" THEN RealMul(healthy, Dec(95, 2))
                  ELSE IF riskTolerance = "low" THEN RealMul(healthy, Dec(105, 2))
                  ELSE healthy
    IN  MathRound(loaded)

(* Strings.  A number is rendered as a string; a longer text is carried as  *)
(* the sequence of its pieces (the literal parts of a template and the      *)
(* rendered values, in order), and denotes their concatenation.             *)

\* Number.prototype.toString of a natural
NumberToString(n) == ToString(n)

\* Number.prototype.toLocaleString of a natural in the process's default
\* locale: digits in groups of three, separated as the locale separates them
GroupSeparator == [l \in Locales |-> IF l = "en-US" THEN "," ELSE "."]

PadGroup(k) ==
    IF k < 10 THEN "00" \o ToString(k)
    ELSE IF k < 100 THEN "0" \o ToString(k)
    ELSE ToString(k)

RECURSIVE toLocaleString(_)
toLocaleString(n) ==
    IF n < 1000
    THEN ToString(n)
    ELSE toLocaleString(n \div 1000) \o GroupSeparator[locale] \o PadGroup(n % 1000)

\* Number.prototype.toFixed(0) of a non-negative value
toFixed0(x) == ToString(MathRound(x))

\* Array.prototype.join of texts
RECURSIVE Join(_, _)
Join(strs, sep) ==
    IF strs = <<>> THEN <<>>
    ELSE IF Len(strs) = 1 THEN strs[1]
    ELSE strs[1] \o <<sep>> \o Join(Tail(strs), sep)

\* the template literals of generateExplanation
ageTextYoung(age, term) ==
    <<"At ", NumberToString(age),
      " years old, you're in a prime age for securing affordable life insurance. ",
      "We recommend a ", NumberToString(term),
      "-year term to provide coverage through your key earning years.">>

ageTextWorking(age, term) ==
    <<"At ", NumberToString(age),
      " years old, life insurance is crucial for protecting your family's financial future. ",
      "A ", NumberToString(term),
      "-year term aligns well with your remaining working years.">>

ageTextSenior(age, term) ==
    <<"At ", NumberToString(age), " years old, a ", NumberToString(term),
      "-year term provides essential coverage ",
      "while keeping premiums manageable as you approach retirement.">>

incomeText(income, incomeMultiplier) ==
    <<"Based on your annual income of $", income, ", ",
      "we applied a ", NumberToString(incomeMultiplier),
      "x multiplier. This ensures your loved ones ",
      "can maintain their current lifestyle and meet long-term financial obligations.">>

dependentsTextSome(dependents, dependentText, percent) ==
    <<"With ", NumberToString(dependents), " ", dependentText,
      ", we've increased your coverage by ",
      percent, "% to account for education costs, ",
      "childcare, and other family expenses.">>

dependentsTextNone ==
    <<"While you have no dependents, life insurance can still cover final expenses, ",
      "outstanding debts, and provide for any future family plans.">>

riskExplanations ==
    [low    |-> <<"Your conservative risk preference indicates a focus on maximum protection. ",
                  "We've adjusted your coverage upward to provide additional security.">>,
     medium |-> <<"Your balanced risk tolerance allows for a standard coverage approach ",
                  "that provides solid protection without over-insuring.">>,
     high   |-> <<"Your higher risk tolerance suggests you may have other investments in place. ",
                  "We've recommended efficient coverage that complements your overall financial strategy.">>]

typeTextWhole ==
    <<"Given your income level and conservative approach, whole life insurance provides ",
      "permanent coverage with a cash value component that grows tax-deferred over time.">>

typeTextUniversal ==
    <<"Universal life insurance offers flexibility in premiums and death benefits, ",
      "along with a cash value component that can supplement your retirement planning.">>

typeTextTerm ==
    <<"Term life insurance provides the most affordable way to secure maximum coverage ",
      "during your working years when your family needs it most.">>

closingText(coverage) ==
    <<"The recommended coverage of $", coverage,
      " represents a careful balance ",
      "of your income replacement needs, family obligations, and premium affordability.">>

\* the sections of generateExplanation
\* variant of ageExplanation with inclusive bounds
ageExplanation_Inclusive(p, term) ==
    IF p.age <= 35 THEN ageTextYoung(p.age, term)
    ELSE IF p.age <= 50 THEN ageTextWorking(p.age, term)
    ELSE ageTextSenior(p.age, term)

ageExplanation(p, term) ==
    IF p.age < 35 THEN ageTextYoung(p.age, term)
    ELSE IF p.age < 50 THEN ageTextWorking(p.age, term)
    ELSE ageTextSenior(p.age, term)

incomeExplanation(p, factors) ==
    incomeText(toLocaleString(p.income), factors.incomeMultiplier)

dependentsExplanation(p, factors) ==
    IF p.dependents > 0
    THEN LET dependentText == IF p.dependents = 1 THEN "dependent" ELSE "dependents"
         IN  dependentsTextSome(
                 p.dependents, dependentText,
                 toFixed0(RealMul(RealSubInt(factors.dependentsFactor, 1), RealOfInt(100))))
    ELSE dependentsTextNone

typeExplanation(type) ==
    IF type = "Whole Life" THEN typeTextWhole
    ELSE IF type = "Universal Life" THEN typeTextUniversal
    ELSE typeTextTerm

closingExplanation(coverage) == closingText(toLocaleString(coverage))

generateExplanation(p, coverage, term, type, factors) ==
    LET explanations ==
            <<ageExplanation(p, term),
              incomeExplanation(p, factors),
              dependentsExplanation(p, factors),
              riskExplanations[p.riskTolerance],
              typeExplanation(type),
              closingExplanation(coverage)>>
    IN  Join(explanations, " ")

calculateRecommendation(p) ==
    LET incomeMultiplier == getIncomeMultiplier(p.age)
        dependentsFactor == RealAdd1(1, RealMul(RealOfInt(p.dependents), DEPENDENT_MULTIPLIER))
        riskAdjustment == RISK_ADJUSTMENTS[p.riskTolerance]
        coverage == calculateCoverage(p.income, incomeMultiplier, dependentsFactor,
                                      riskAdjustment)
        term == determineTerm(p.age)
        insuranceType == determineInsuranceType(p)
        monthlyPremium == calculatePremium(p.age, coverage, term, insuranceType,
                                           p.riskTolerance)
        factors == [incomeMultiplier |-> incomeMultiplier,
                    dependentsFactor |-> RealNorm(dependentsFactor),
                    riskAdjustment   |-> RealNorm(riskAdjustment)]
        explanation == generateExplanation(p, coverage, term, insuranceType, factors)
    IN  [recommendation |-> [type |-> insuranceType, coverage |-> coverage,
                             term |-> term, monthlyPremium |-> monthlyPremium],
         explanation |-> explanation,
         factors |-> factors]

----------------------------------------------------------------------------
(* The shared logger (utils/logger.ts) *)

logInfo(message, meta) == [level |-> "info", message |-> message, meta |-> meta]

\* the records one invocation of calculateRecommendation writes
invocationLog(p, result) ==
    <<logInfo("Calculating recommendation for profile", p),
      logInfo("Recommendation calculated", result.recommendation)>>

\* object spread followed by further properties
Spread(object, properties) == properties @@ object

\* variant of compareOptions with the two alternatives exchanged
compareOptions_Exchanged(p) ==
    <<Spread(calculateRecommendation(p), [label |-> "Recommended", priority |-> 1]),
      Spread(calculateRecommendation([p EXCEPT !.riskTolerance = "high"]),
             [label |-> "Maximum Protection", priority |-> 2]),
      Spread(calculateRecommendation([p EXCEPT !.riskTolerance = "low"]),
             [label |-> "Budget-Friendly", priority |-> 3])>>

compareOptions(p) ==
    LET baseRecommendation == calculateRecommendation(p)
    IN  <<Spread(baseRecommendation, [label |-> "Recommended", priority |-> 1]),
          Spread(calculateRecommendation([p EXCEPT !.riskTolerance = "low"]),
                 [label |-> "Maximum Protection", priority |-> 2]),
          Spread(calculateRecommendation([p EXCEPT !.riskTolerance = "high"]),
                 [label |-> "Budget-Friendly", priority |-> 3])>>

----------------------------------------------------------------------------
(* One invocation by the route handler *)

NoCallers == calls = <<>> /\ alone = <<>>

\* no browser window is open
NoBrowser ==
    /\ cookie = FALSE
    /\ storage = FALSE
    /\ location = <<>>
    /\ page = "closed"

\* table users is empty and nobody registers
NoRegistrations ==
    /\ users = [rows |-> <<>>, nextval |-> 1]
    /\ registrations = <<>>

\* the server listens, the pool is open and no signal has arrived
Running ==
    /\ server = [state |-> "listening", connections |-> 0, listeners |-> 0]
    /\ pool = [state |-> "open", clients |-> 0]
    /\ signals = <<>>
    /\ exited = <<>>

\* nothing but the backend's router is at work
Quiet == NoBrowser /\ NoRegistrations /\ Running

\* the router serves nothing and the table is empty
NoRequests ==
    /\ request = <<>>
    /\ stage = "idle"
    /\ user = <<>>
    /\ reply = <<>>
    /\ rows = <<>>
    /\ pending = <<>>
    /\ nextId = 1
    /\ statements = <<>>
    /\ checkedOut = 0
    /\ thrown = <<>>

Init ==
    /\ locale \in Locales
    /\ profile \in Profiles
    /\ pc = "called"
    /\ response = <<>>
    /\ earlier = <<>>
    /\ logged = <<>>
    /\ options = <<>>
    /\ NoCallers
    /\ NoRequests
    /\ Quiet

\* variant of Calculate that keeps the last result in a field of the instance
Calculate_Caching ==
    /\ pc = "called"
    /\ response' = <<calculateRecommendation(profile)>>
    /\ logged' = logged \o invocationLog(profile, response'[1])
    /\ earlier' = <<[profile |-> profile, response |-> response'[1]]>>
    /\ pc' = "returned"
    /\ UNCHANGED <<locale, profile, options, callerVars, siteVars, apiVars>>

Calculate ==
    /\ pc = "called"
    /\ response' = <<calculateRecommendation(profile)>>
    /\ logged' = logged \o invocationLog(profile, response'[1])
    /\ pc' = "returned"
    /\ UNCHANGED <<locale, profile, earlier, options, callerVars, siteVars, apiVars>>

\* The route handler passes the next request to the shared service instance;
\* the first completed invocation is remembered for comparison.
NextCall ==
    /\ pc = "returned"
    /\ profile' \in PairProfiles
    /\ pc' = "called"
    /\ response' = <<>>
    /\ logged' = <<>>
    /\ earlier' = IF earlier = <<>>
                  THEN <<[profile |-> profile, response |-> response[1]]>>
                  ELSE earlier
    /\ UNCHANGED <<locale, options, callerVars, siteVars, apiVars>>

Next == Calculate

Spec == Init /\ [][Next]_vars

InitTwoCalls ==
    /\ locale \in Locales
    /\ profile \in PairProfiles
    /\ pc = "called"
    /\ response = <<>>
    /\ earlier = <<>>
    /\ logged = <<>>
    /\ options = <<>>
    /\ NoCallers
    /\ NoRequests
    /\ Quiet

NextTwoCalls == Calculate \/ NextCall

SpecTwoCalls == InitTwoCalls /\ [][NextTwoCalls]_vars

----------------------------------------------------------------------------
(* One invocation of compareOptions *)

InitCompare ==
    /\ locale \in Locales
    /\ profile \in CompareProfiles
    /\ pc = "called"
    /\ response = <<>>
    /\ earlier = <<>>
    /\ logged = <<>>
    /\ options = <<>>
    /\ NoCallers
    /\ NoRequests
    /\ Quiet

Compare ==
    /\ pc = "called"
    /\ options' = compareOptions(profile)
    /\ logged' = logged
                 \o invocationLog(profile, options'[1])
                 \o invocationLog([profile EXCEPT !.riskTolerance = "low"], options'[2])
                 \o invocationLog([profile EXCEPT !.riskTolerance = "high"], options'[3])
    /\ pc' = "compared"
    /\ UNCHANGED <<locale, profile, response, earlier, callerVars, siteVars, apiVars>>

NextCompare == Compare

SpecCompare == InitCompare /\ [][NextCompare]_vars

----------------------------------------------------------------------------
(* Several callers of the one instance the router module creates.  An      *)
(* invocation contains no await, so it runs to completion; callers         *)
(* interleave between invocations.                                         *)

Callers == 1..NumCallers

InitConcurrent ==
    /\ locale \in Locales
    /\ logged = <<>>
    /\ calls \in [Callers -> [profile : ConcurrentProfiles, pc : {"called"},
                              response : {<<>>}]]
    /\ alone = [p \in ConcurrentProfiles |-> calculateRecommendation(p)]
    /\ profile = <<>>
    /\ pc = "idle"
    /\ response = <<>>
    /\ earlier = <<>>
    /\ options = <<>>
    /\ NoRequests
    /\ Quiet

Invoke(c) ==
    /\ calls[c].pc = "called"
    /\ LET result == calculateRecommendation(calls[c].profile)
       IN  /\ calls' = [calls EXCEPT ![c] = [profile  |-> calls[c].profile,
                                             pc       |-> "returned",
                                             response |-> <<result>>]]
           /\ logged' = logged \o invocationLog(calls[c].profile, result)
    /\ UNCHANGED <<locale, profile, pc, response, earlier, options, alone, siteVars, apiVars>>

CallAgain(c) ==
    /\ calls[c].pc = "returned"
    /\ Len(logged) < 2 * MaxInvocations
    /\ \E p \in ConcurrentProfiles :
           calls' = [calls EXCEPT ![c] = [profile |-> p, pc |-> "called",
                                          response |-> <<>>]]
    /\ UNCHANGED <<engineVars, alone, siteVars, apiVars>>

NextConcurrent == \E c \in Callers : Invoke(c) \/ CallAgain(c)

SpecConcurrent == InitConcurrent /\ [][NextConcurrent]_vars

----------------------------------------------------------------------------
(* The HTTP API (routes/recommendation.ts, middleware/auth.ts,             *)
(* middleware/errorHandler.ts).  The model starts where Express dispatches *)
(* a request to the router.                                                *)

\* JSON values of a request body; text is what String(value) gives
JNumber(n) == [type |-> "number", text |-> ToString(n)]
JFraction(text) == [type |-> "number", text |-> text]
JString(s) == [type |-> "string", text |-> s]
\* (String(array) joins the texts of its elements with commas)
RECURSIVE ArrayText(_)
ArrayText(items) ==
    IF Len(items) = 1 THEN items[1].text
    ELSE items[1].text \o "," \o ArrayText(Tail(items))

JArray(items) == [type |-> "array", text |-> ArrayText(items), items |-> items]
JUndefined == [type |-> "undefined", text |-> ""]

\* the integers whose decimal rendering occurs among the model's texts
IntPool == (-1..(MAX_AGE + 1)) \cup Incomes

\* validator.js isInt: the text is a decimal integer literal
IsIntText(s) == \E n \in IntPool : ToString(n) = s

\* parseInt(text, 10) of such a text
ParseInt(s) == CHOOSE n \in IntPool : ToString(n) = s

\* String.prototype.toLowerCase on the model's texts
UpperCased == [LOW |-> "low", Medium |-> "medium", ASC |-> "asc", DESC |-> "desc"]

toLowerCase(s) == IF s \in DOMAIN UpperCased THEN UpperCased[s] ELSE s

\* String.prototype.toUpperCase on the model's texts
LowerCased == [asc |-> "ASC", desc |-> "DESC"]

toUpperCase(s) == IF s \in DOMAIN LowerCased THEN LowerCased[s] ELSE s

\* express-validator applies a standard validator to every element of an
\* array value, and to the value itself otherwise, after rendering it as text
Elements(v) == IF v.type = "array" THEN v.items ELSE <<v>>

isInt(v, range) ==
    \A i \in DOMAIN Elements(v) :
        LET s == Elements(v)[i].text
        IN  /\ IsIntText(s)
            /\ ParseInt(s) >= range.min
            /\ "max" \in DOMAIN range => ParseInt(s) <= range.max

isIn(v, list) == \A i \in DOMAIN Elements(v) : Elements(v)[i].text \in list

\* express-validator applies a sanitizer to every element of an array value
toInt(v) ==
    IF v.type = "array"
    THEN JArray([i \in DOMAIN v.items |-> JNumber(ParseInt(v.items[i].text))])
    ELSE JNumber(ParseInt(v.text))

toLowerCaseValue(v) ==
    IF v.type = "array"
    THEN JArray([i \in DOMAIN v.items |-> JString(toLowerCase(v.items[i].text))])
    ELSE JString(toLowerCase(v.text))

\* the errors of the four validation chains, in chain order
validateRecommendationInput(body) ==
    (IF isInt(body.age, [min |-> MIN_AGE, max |-> MAX_AGE]) THEN <<>>
     ELSE <<[field |-> "age", message |-> "Age must be between 18 and 100"]>>)
    \o (IF isInt(body.income, [min |-> 0]) THEN <<>>
        ELSE <<[field |-> "income", message |-> "Income must be a positive number"]>>)
    \o (IF isInt(body.dependents, [min |-> 0]) THEN <<>>
        ELSE <<[field |-> "dependents",
                message |-> "Dependents must be a non-negative number"]>>)
    \o (IF isIn(body.riskTolerance, RiskTolerances) THEN <<>>
        ELSE <<[field |-> "riskTolerance",
                message |-> "Risk tolerance must be low, medium, or high"]>>)

\* req.body after the sanitizers of a body that has no validation error
sanitizedBody(body) ==
    [age           |-> toInt(body.age),
     income        |-> toInt(body.income),
     dependents    |-> toInt(body.dependents),
     riskTolerance |-> toLowerCaseValue(body.riskTolerance)]

\* ToNumber and ToString of a sanitized value, as the engine's comparisons,
\* arithmetic and template literals apply them
ToNumber(v) == ParseInt(v.text)

ToText(v) == v.text

\* the profile as the engine's operations see it
Coerced(p) ==
    [age           |-> ToNumber(p.age),
     income        |-> ToNumber(p.income),
     dependents    |-> ToNumber(p.dependents),
     riskTolerance |-> ToText(p.riskTolerance)]

\* JSON Web Tokens: jwt.verify accepts a token signed with JWT_SECRET that
\* has not expired
Users == {1, 2}

SignedToken(payload, expired) ==
    [text |-> "jwt", signature |-> "valid", expired |-> expired, payload |-> payload]

UserToken(id) == SignedToken([id |-> id, email |-> "user@example.com"], FALSE)

ExpiredToken == SignedToken([id |-> 1, email |-> "user@example.com"], TRUE)

TokenWithoutId == SignedToken([id |-> 0, email |-> "user@example.com"], FALSE)

ForgedToken ==
    [text |-> "jwt", signature |-> "invalid", expired |-> FALSE,
     payload |-> [id |-> 1, email |-> "user@example.com"]]

EmptyToken ==
    [text |-> "", signature |-> "invalid", expired |-> FALSE,
     payload |-> [id |-> 0, email |-> ""]]

jwtVerify_IgnoringExpiry(token) ==
    IF token.signature = "valid" THEN <<token.payload>> ELSE <<>>

jwtVerify(token) ==
    IF token.signature = "valid" /\ ~token.expired THEN <<token.payload>> ELSE <<>>

\* the Authorization header split at single spaces; <<>> if there is none
AuthorizationHeaders ==
    {<<>>, <<"Bearer">>, <<"Bearer", EmptyToken>>, <<"Bearer", ForgedToken>>,
     <<"Bearer", ExpiredToken>>, <<"Bearer", TokenWithoutId>>,
     <<"Basic", UserToken(1)>>}
    \cup {<<"Bearer", UserToken(u)>> : u \in Users}

\* request bodies: the documented example with one field varied
ExampleBody ==
    [age |-> JNumber(35), income |-> JNumber(75000), dependents |-> JNumber(2),
     riskTolerance |-> JString("medium")]

AgeValues ==
    {JNumber(MIN_AGE - 1), JNumber(MIN_AGE), JNumber(MAX_AGE), JNumber(MAX_AGE + 1),
     JFraction("35.5"), JString("35"), JString("abc"), JUndefined,
     JArray(<<JNumber(35)>>), JArray(<<JString("abc")>>)}

IncomeValues ==
    {JNumber(-1), JNumber(0), JFraction("0.5"), JString("75000"), JUndefined}

DependentsValues == {JNumber(-1), JFraction("1.5"), JString("two"), JUndefined}

RiskToleranceValues ==
    {JString("low"), JString("LOW"), JString("extreme"), JNumber(1), JUndefined}

Bodies ==
    {ExampleBody}
    \cup {[ExampleBody EXCEPT !.age = v] : v \in AgeValues}
    \cup {[ExampleBody EXCEPT !.income = v] : v \in IncomeValues}
    \cup {[ExampleBody EXCEPT !.dependents = v] : v \in DependentsValues}
    \cup {[ExampleBody EXCEPT !.riskTolerance = v] : v \in RiskToleranceValues}

EmptyBody ==
    [age |-> JUndefined, income |-> JUndefined, dependents |-> JUndefined,
     riskTolerance |-> JUndefined]

NoQuery ==
    [limit |-> JUndefined, offset |-> JUndefined, sortBy |-> JUndefined,
     order |-> JUndefined]

Queries ==
    {NoQuery,
     [NoQuery EXCEPT !.sortBy = JString("age"), !.order = JString("asc")],
     [NoQuery EXCEPT !.sortBy = JString("password_hash")],
     [NoQuery EXCEPT !.order = JString("ASC")],
     [NoQuery EXCEPT !.sortBy = JArray(<<JString("age")>>)],
     [NoQuery EXCEPT !.sortBy = JArray(<<JString("age"), JString("income")>>)],
     [NoQuery EXCEPT !.order = JArray(<<JString("asc"), JString("desc")>>)],
     [NoQuery EXCEPT !.limit = JString("1"), !.offset = JString("1")],
     [NoQuery EXCEPT !.limit = JString("0")]}

RecommendationIds == {"1", "2", "abc"}

PostRecommendation == "POST /recommendation"
GetRecommendations == "GET /recommendations"
GetRecommendation == "GET /recommendations/:id"

Requests ==
    [route : {PostRecommendation}, authorization : AuthorizationHeaders,
     body : Bodies, query : {NoQuery}, id : {""}]
    \cup [route : {GetRecommendations}, authorization : AuthorizationHeaders,
          body : {EmptyBody}, query : Queries, id : {""}]
    \cup [route : {GetRecommendation}, authorization : AuthorizationHeaders,
          body : {EmptyBody}, query : {NoQuery}, id : RecommendationIds]

\* res.status(status).json(body)
Send(status, body) == <<[status |-> status, body |-> body]>>

logWarn(message, meta) == [level |-> "warn", message |-> message, meta |-> meta]

logError(message, meta) == [level |-> "error", message |-> message, meta |-> meta]

\* errors of the database driver
ConnectionRefused == [code |-> "ECONNREFUSED", message |-> "connect ECONNREFUSED"]
ConnectionLost == [code |-> "08006", message |-> "Connection terminated unexpectedly"]
InvalidTextRepresentation ==
    [code |-> "22P02", message |-> "invalid input syntax for type integer"]
CheckViolation ==
    [code |-> "23514", message |-> "violates check constraint"]

\* middleware/errorHandler.ts: status and message chosen by the error's code
errorHandler(err) ==
    LET chosen ==
            CASE err.code = "23505" -> [status |-> 409, message |-> "Duplicate entry"]
              [] err.code = "23503" -> [status |-> 400, message |-> "Invalid reference"]
              [] err.code = "22P02" -> [status |-> 400, message |-> "Invalid input syntax"]
              [] err.code = "ECONNREFUSED"
                    -> [status |-> 503, message |-> "Service temporarily unavailable"]
              [] OTHER -> [status |-> 500, message |-> err.message]
    IN  Send(chosen.status,
             [error |-> [message |-> chosen.message, status |-> chosen.status,
                         path |-> request.route]])

errorHandlerLog(err) == <<logError("Error occurred", err.message)>>

----------------------------------------------------------------------------
(* Table recommendations (database/schema.sql, db/auth-schema.sql) *)

\* the parameters of the INSERT, in the order of its columns
InsertValues(userId, p, recommendation) ==
    [user_id             |-> userId,
     age                 |-> p.age,
     income              |-> p.income,
     dependents          |-> p.dependents,
     risk_tolerance      |-> p.riskTolerance,
     recommendation_type |-> recommendation.recommendation.type,
     coverage_amount     |-> recommendation.recommendation.coverage,
     term_years          |-> recommendation.recommendation.term,
     monthly_premium     |-> recommendation.recommendation.monthlyPremium,
     explanation         |-> recommendation.explanation,
     income_multiplier   |-> recommendation.factors.incomeMultiplier,
     dependents_factor   |-> recommendation.factors.dependentsFactor,
     risk_adjustment     |-> recommendation.factors.riskAdjustment]

\* an array parameter is sent as an array literal, which an INTEGER or
\* VARCHAR(10) column of this table does not accept
ColumnTypesAccept(values) ==
    /\ values.age.type = "number"
    /\ values.income.type = "number"
    /\ values.dependents.type = "number"
    /\ values.risk_tolerance.type = "string"

\* the CHECK constraints of the table
ChecksAccept(values) ==
    /\ ToNumber(values.age) >= 18 /\ ToNumber(values.age) <= 100
    /\ ToNumber(values.income) >= 0
    /\ ToNumber(values.dependents) >= 0
    /\ values.risk_tolerance.text \in {"low", "medium", "high"}
    /\ values.coverage_amount > 0
    /\ values.term_years >= 0
    /\ values.monthly_premium > 0

\* the stored row; time is counted in values of the id sequence
StoredRow(values, id) ==
    [id |-> id, created_at |-> id]
    @@ [values EXCEPT !.age = ToNumber(@), !.income = ToNumber(@),
                      !.dependents = ToNumber(@), !.risk_tolerance = @.text]

\* variant of RowsOf without the WHERE clause
RowsOf_Everyone(userId) == rows

RowsOf(userId) == SelectSeq(rows, LAMBDA r : r.user_id = userId)

\* ORDER BY column direction: every order of the rows that the column allows
Ordered(rs, column, direction) ==
    {[i \in DOMAIN rs |-> rs[perm[i]]] :
        perm \in {f \in [DOMAIN rs -> DOMAIN rs] :
                     /\ \A i, j \in DOMAIN rs : i # j => f[i] # f[j]
                     /\ \A i, j \in DOMAIN rs :
                            i < j => IF direction = "ASC"
                                     THEN rs[f[i]][column] <= rs[f[j]][column]
                                     ELSE rs[f[i]][column] >= rs[f[j]][column]}}

\* LIMIT limit OFFSET offset
Page(rs, limit, offset) ==
    IF offset >= Len(rs) THEN <<>>
    ELSE SubSeq(rs, offset + 1, MathMin(Len(rs), offset + limit))

----------------------------------------------------------------------------
(* Serving one request at a time *)

InitApi ==
    /\ locale \in Locales
    /\ profile = <<>>
    /\ pc = "idle"
    /\ response = <<>>
    /\ earlier = <<>>
    /\ logged = <<>>
    /\ options = <<>>
    /\ NoCallers
    /\ NoRequests
    /\ Quiet

\* Express dispatches the next request to the router; a POST is accepted
\* only while the id sequence is within the limit
Dispatch(requests, limit) ==
    /\ stage \in {"idle", "done"}
    /\ request' \in requests
    /\ request'.route = PostRecommendation => nextId <= limit
    /\ stage' = "received"
    /\ user' = <<>>
    /\ reply' = <<>>
    /\ statements' = <<>>
    /\ thrown' = <<>>
    /\ profile' = <<>>
    /\ response' = <<>>
    /\ logged' = <<>>
    /\ UNCHANGED <<locale, pc, earlier, options, callerVars, siteVars, rows, pending, nextId,
                   checkedOut>>

Receive == Dispatch(Requests, MaxRows)

\* middleware authenticateToken, first in the chain of the three routes
authenticateToken ==
    /\ stage = "received"
    /\ LET authHeader == request.authorization
           token == IF Len(authHeader) >= 2 THEN authHeader[2] ELSE EmptyToken
       IN  IF token.text = ""
           THEN /\ reply' = Send(401, [error |-> "Access token required"])
                /\ stage' = "done"
                /\ user' = user
           ELSE IF jwtVerify(token) = <<>>
           THEN /\ reply' = Send(403, [error |-> "Invalid or expired token"])
                /\ stage' = "done"
                /\ user' = user
           ELSE /\ user' = jwtVerify(token)
                /\ stage' = IF request.route = GetRecommendation
                            THEN "validated" ELSE "authenticated"
                /\ reply' = reply
    /\ UNCHANGED <<engineVars, callerVars, siteVars, request, rows, pending, nextId, statements,
                   checkedOut, thrown>>

\* the validation chains of GET /recommendations; a parameter that is not
\* given is not validated
validateQuery(query) ==
    (IF query.limit.type = "undefined" \/ isInt(query.limit, [min |-> 1, max |-> 100])
     THEN <<>>
     ELSE <<[field |-> "limit", message |-> "Limit must be between 1 and 100"]>>)
    \o (IF query.offset.type = "undefined" \/ isInt(query.offset, [min |-> 0])
        THEN <<>>
        ELSE <<[field |-> "offset", message |-> "Offset must be non-negative"]>>)
    \o (IF query.sortBy.type = "undefined"
           \/ isIn(query.sortBy, {"created_at", "coverage_amount", "age", "income",
                                  "monthly_premium"})
        THEN <<>>
        ELSE <<[field |-> "sortBy", message |-> "Invalid sort column"]>>)
    \o (IF query.order.type = "undefined" \/ isIn(query.order, {"asc", "desc"})
        THEN <<>>
        ELSE <<[field |-> "order", message |-> "Order must be asc or desc"]>>)

sanitizedQuery(query) ==
    [limit  |-> IF query.limit.type = "undefined" THEN query.limit ELSE toInt(query.limit),
     offset |-> IF query.offset.type = "undefined" THEN query.offset
                ELSE toInt(query.offset),
     sortBy |-> query.sortBy,
     order  |-> IF query.order.type = "undefined" THEN query.order
                ELSE toLowerCaseValue(query.order)]

\* the validation chains of the route followed by handleValidationErrors
handleValidationErrors ==
    /\ stage = "authenticated"
    /\ LET errors == IF request.route = PostRecommendation
                     THEN validateRecommendationInput(request.body)
                     ELSE validateQuery(request.query)
       IN  IF errors # <<>>
           THEN /\ logged' = logged \o <<logWarn("Validation error", errors)>>
                /\ reply' = Send(400, [error |-> "Validation Error", details |-> errors])
                /\ stage' = "done"
                /\ request' = request
           ELSE /\ request' = IF request.route = PostRecommendation
                              THEN [request EXCEPT !.body = sanitizedBody(@)]
                              ELSE [request EXCEPT !.query = sanitizedQuery(@)]
                /\ stage' = "validated"
                /\ UNCHANGED <<logged, reply>>
    /\ UNCHANGED <<locale, profile, pc, response, earlier, options, callerVars, siteVars, user,
                   rows, pending, nextId, statements, checkedOut, thrown>>

userId == user[1].id

\* what the handlers' catch blocks do with an error: log it and pass it to
\* next(), which ends in errorHandler
Forwarded_Swallowing(message, err) ==
    /\ logged' = logged \o <<logError(message, err.message)>>
    /\ reply' = Send(200, [recommendation |-> response])

Forwarded(message, err) ==
    /\ logged' = logged \o <<logError(message, err.message)>> \o errorHandlerLog(err)
    /\ reply' = errorHandler(err)

\* POST /recommendation, lines 52-72: up to the first await
PostHandler ==
    /\ stage = "validated"
    /\ request.route = PostRecommendation
    /\ IF userId = 0
       THEN /\ reply' = Send(401, [error |-> "User not authenticated"])
            /\ stage' = "done"
            /\ UNCHANGED <<profile, response, logged, checkedOut, thrown>>
       ELSE LET passed == request.body
                recommendation == calculateRecommendation(Coerced(passed))
                entering == logged
                    \o <<logInfo("Processing recommendation request",
                                 [userId |-> userId] @@ passed)>>
                    \o invocationLog(passed, recommendation)
            IN  /\ profile' = passed
                /\ response' = <<recommendation>>
                /\ \E connected \in BOOLEAN :
                      IF connected
                      THEN /\ checkedOut' = checkedOut + 1
                           /\ stage' = "connected"
                           /\ logged' = entering
                           /\ UNCHANGED <<reply, thrown>>
                      ELSE /\ thrown' = <<ConnectionRefused>>
                           /\ stage' = "done"
                           /\ logged' = entering
                                \o <<logError("Error generating recommendation",
                                              ConnectionRefused.message)>>
                                \o errorHandlerLog(ConnectionRefused)
                           /\ reply' = errorHandler(ConnectionRefused)
                           /\ UNCHANGED checkedOut
    /\ UNCHANGED <<locale, pc, earlier, options, callerVars, siteVars, request, user, rows,
                   pending, nextId, statements>>

Statement(sql, params) == [sql |-> sql, params |-> params]

\* await client.query('BEGIN')
Begin ==
    /\ stage = "connected"
    /\ statements' = Append(statements, Statement("BEGIN", <<>>))
    /\ \E ok \in BOOLEAN :
          IF ok THEN stage' = "begun" /\ thrown' = thrown
          ELSE stage' = "failed" /\ thrown' = <<ConnectionLost>>
    /\ UNCHANGED <<engineVars, callerVars, siteVars, request, user, reply, rows, pending, nextId,
                   checkedOut>>

\* await client.query(insertQuery, values)
Insert ==
    /\ stage = "begun"
    /\ LET values == InsertValues(userId, profile, response[1])
       IN  /\ statements' = Append(statements,
                                   Statement("INSERT INTO recommendations", values))
           /\ IF ~ColumnTypesAccept(values)
              THEN /\ stage' = "failed"
                   /\ thrown' = <<InvalidTextRepresentation>>
                   /\ UNCHANGED <<pending, nextId>>
              ELSE IF ~ChecksAccept(values)
              THEN /\ stage' = "failed"
                   /\ thrown' = <<CheckViolation>>
                   /\ nextId' = nextId + 1
                   /\ UNCHANGED pending
              ELSE \E ok \in BOOLEAN :
                      IF ok
                      THEN /\ pending' = <<StoredRow(values, nextId)>>
                           /\ nextId' = nextId + 1
                           /\ stage' = "inserted"
                           /\ thrown' = thrown
                      ELSE /\ stage' = "failed"
                           /\ thrown' = <<ConnectionLost>>
                           /\ UNCHANGED <<pending, nextId>>
    /\ UNCHANGED <<engineVars, callerVars, siteVars, request, user, reply, rows, checkedOut>>

ProcessingTimes == {0, 7}

\* await client.query('COMMIT'), the response, and the finally block
Commit ==
    /\ stage = "inserted"
    /\ statements' = Append(statements, Statement("COMMIT", <<>>))
    /\ \E ok \in BOOLEAN :
          IF ok
          THEN /\ rows' = rows \o pending
               /\ pending' = <<>>
               /\ \E processingTime \in ProcessingTimes :
                      reply' = Send(200, Spread(response[1],
                                                [id |-> pending[1].id,
                                                 timestamp |-> pending[1].created_at,
                                                 processingTime |-> processingTime]))
               /\ logged' = logged
                     \o <<logInfo("Recommendation generated successfully",
                                  [userId |-> userId, id |-> pending[1].id,
                                   type |-> response[1].recommendation.type,
                                   coverage |-> response[1].recommendation.coverage])>>
               /\ checkedOut' = checkedOut - 1
               /\ stage' = "done"
               /\ thrown' = thrown
          ELSE \* the connection broke: the server may or may not have committed
               /\ stage' = "failed"
               /\ thrown' = <<ConnectionLost>>
               /\ pending' = <<>>
               /\ \E applied \in BOOLEAN : rows' = IF applied THEN rows \o pending ELSE rows
               /\ UNCHANGED <<reply, logged, checkedOut>>
    /\ UNCHANGED <<locale, profile, pc, response, earlier, options, callerVars, siteVars, request,
                   user, nextId>>

\* variant of Rollback that releases the client after ROLLBACK inside the
\* catch block, so that a ROLLBACK that throws skips the release
Rollback_Leaking ==
    /\ stage = "failed"
    /\ statements' = Append(statements, Statement("ROLLBACK", <<>>))
    /\ pending' = <<>>
    /\ \E ok \in BOOLEAN :
          LET error == IF ok THEN thrown[1] ELSE ConnectionLost
          IN  /\ thrown' = <<error>>
              /\ checkedOut' = IF ok THEN checkedOut - 1 ELSE checkedOut
              /\ Forwarded("Error generating recommendation", error)
    /\ stage' = "done"
    /\ UNCHANGED <<locale, profile, pc, response, earlier, options, callerVars, siteVars, request,
                   user, rows, nextId>>

\* the catch block (ROLLBACK and rethrow), the finally block, the outer catch
Rollback ==
    /\ stage = "failed"
    /\ statements' = Append(statements, Statement("ROLLBACK", <<>>))
    /\ pending' = <<>>
    /\ checkedOut' = checkedOut - 1
    /\ \E ok \in BOOLEAN :
          LET error == IF ok THEN thrown[1] ELSE ConnectionLost
          IN  /\ thrown' = <<error>>
              /\ Forwarded("Error generating recommendation", error)
    /\ stage' = "done"
    /\ UNCHANGED <<locale, profile, pc, response, earlier, options, callerVars, siteVars, request,
                   user, rows, nextId>>

\* Math.ceil(a / b) and Math.floor(a / b) of naturals, b > 0
CeilDiv(a, b) == (a + b - 1) \div b

\* the columns dataQuery selects (lines 192-206): user_id is not among them
dataColumns ==
    {"id", "age", "income", "dependents", "risk_tolerance", "recommendation_type",
     "coverage_amount", "term_years", "monthly_premium", "explanation",
     "income_multiplier", "dependents_factor", "risk_adjustment", "created_at"}

Selected(rs) == [i \in DOMAIN rs |-> [c \in dataColumns |-> rs[i][c]]]

validSortColumns == {"created_at", "coverage_amount", "age", "income", "monthly_premium"}

validSortOrders == {"asc", "desc"}

\* variant of sortChecks that lets every value through
sortChecks_None(sortBy, order) == <<>>

\* lines 174-185: the handler's own check of what it interpolates
sortChecks(sortBy, order) ==
    IF sortBy \notin validSortColumns
    THEN Send(400, [error |-> "Invalid sort column"])
    ELSE IF toLowerCase(order) \notin validSortOrders
    THEN Send(400, [error |-> "Invalid sort order"])
    ELSE <<>>

\* GET /recommendations: the handler with its two queries
ListHandler ==
    /\ stage = "validated"
    /\ request.route = GetRecommendations
    /\ stage' = "done"
    /\ IF userId = 0
       THEN /\ reply' = Send(401, [error |-> "User not authenticated"])
            /\ UNCHANGED <<statements, logged, thrown>>
       ELSE LET limit == IF request.query.limit.type = "undefined" THEN 10
                         ELSE ToNumber(request.query.limit)
                offset == IF request.query.offset.type = "undefined" THEN 0
                          ELSE ToNumber(request.query.offset)
                sortBy == IF request.query.sortBy.type = "undefined" THEN "created_at"
                          ELSE request.query.sortBy.text
                order == IF request.query.order.type = "undefined" THEN "desc"
                         ELSE request.query.order.text
                countQuery == Statement(<<"SELECT COUNT(*) FROM recommendations WHERE user_id = $1">>,
                                        <<userId>>)
                dataQuery == Statement(<<"SELECT ... FROM recommendations WHERE user_id = $1 ORDER BY ",
                                         sortBy, " ", toUpperCase(order),
                                         " LIMIT $2 OFFSET $3">>,
                                       <<userId, limit, offset>>)
                totalCount == Len(RowsOf(userId))
            IN  IF sortChecks(sortBy, order) # <<>>
                THEN /\ reply' = sortChecks(sortBy, order)
                     /\ UNCHANGED <<statements, logged, thrown>>
                ELSE
                \E outcome \in {"count fails", "data fails", "answered"} :
                   CASE outcome = "count fails" ->
                          /\ statements' = Append(statements, countQuery)
                          /\ thrown' = <<ConnectionLost>>
                          /\ Forwarded("Error fetching recommendations", ConnectionLost)
                     [] outcome = "data fails" ->
                          /\ statements' = statements \o <<countQuery, dataQuery>>
                          /\ thrown' = <<ConnectionLost>>
                          /\ Forwarded("Error fetching recommendations", ConnectionLost)
                     [] outcome = "answered" ->
                          /\ statements' = statements \o <<countQuery, dataQuery>>
                          /\ \E sorted \in Ordered(RowsOf(userId), sortBy,
                                                   toUpperCase(order)) :
                                reply' = Send(200,
                                    [data |-> Selected(Page(sorted, limit, offset)),
                                     pagination |->
                                        [total |-> totalCount, limit |-> limit,
                                         offset |-> offset,
                                         pages |-> CeilDiv(totalCount, limit),
                                         currentPage |-> (offset \div limit) + 1]])
                          /\ UNCHANGED <<logged, thrown>>
    /\ UNCHANGED <<locale, profile, pc, response, earlier, options, callerVars, siteVars, request,
                   user, rows, pending, nextId, checkedOut>>

\* GET /recommendations/:id
GetHandler ==
    /\ stage = "validated"
    /\ request.route = GetRecommendation
    /\ stage' = "done"
    /\ IF userId = 0
       THEN /\ reply' = Send(401, [error |-> "User not authenticated"])
            /\ UNCHANGED <<statements, logged, thrown>>
       ELSE IF ~IsIntText(request.id)
       THEN /\ reply' = Send(400, [error |-> "Invalid recommendation ID"])
            /\ UNCHANGED <<statements, logged, thrown>>
       ELSE LET query == Statement("SELECT * FROM recommendations WHERE id = $1 AND user_id = $2",
                                   <<request.id, userId>>)
                found == SelectSeq(rows, LAMBDA r : r.id = ParseInt(request.id)
                                                    /\ r.user_id = userId)
            IN  /\ statements' = Append(statements, query)
                /\ \E ok \in BOOLEAN :
                      IF ~ok
                      THEN /\ thrown' = <<ConnectionLost>>
                           /\ Forwarded("Error fetching recommendation", ConnectionLost)
                      ELSE /\ reply' = IF found = <<>>
                                       THEN Send(404, [error |-> "Recommendation not found"])
                                       ELSE Send(200, found[1])
                           /\ UNCHANGED <<logged, thrown>>
    /\ UNCHANGED <<locale, profile, pc, response, earlier, options, callerVars, siteVars, request,
                   user, rows, pending, nextId, checkedOut>>

NextApi ==
    \/ Receive
    \/ authenticateToken
    \/ handleValidationErrors
    \/ PostHandler
    \/ Begin
    \/ Insert
    \/ Commit
    \/ Rollback
    \/ ListHandler
    \/ GetHandler

SpecApi == InitApi /\ [][NextApi]_vars

\* The history of several users: valid requests only
HistoryRequests ==
    [route : {PostRecommendation},
     authorization : {<<"Bearer", UserToken(u)>> : u \in Users},
     body : {ExampleBody}, query : {NoQuery}, id : {""}]
    \cup [route : {GetRecommendations},
          authorization : {<<"Bearer", UserToken(u)>> : u \in Users},
          body : {EmptyBody},
          query : {NoQuery,
                   [NoQuery EXCEPT !.sortBy = JString("age"), !.order = JString("asc")]},
          id : {""}]
    \cup [route : {GetRecommendation},
          authorization : {<<"Bearer", UserToken(u)>> : u \in Users},
          body : {EmptyBody}, query : {NoQuery}, id : RecommendationIds]

ReceiveHistory == Dispatch(HistoryRequests, MaxHistory)

NextHistory ==
    \/ ReceiveHistory
    \/ authenticateToken
    \/ handleValidationErrors
    \/ PostHandler
    \/ Begin
    \/ Insert
    \/ Commit
    \/ Rollback
    \/ ListHandler
    \/ GetHandler

SpecHistory == InitApi /\ [][NextHistory]_vars

----------------------------------------------------------------------------
(* Properties of a returned recommendation *)

Returned == pc = "returned"

Policy == response[1].recommendation

\* the uncapped, unfloored product income * incomeMultiplier * dependentsFactor
\* * riskAdjustment in twentieths of a currency unit, from the profile alone
\* (dependentsFactor = (4 + dependents) / 4, riskAdjustment = 6/5, 5/5, 4/5)
RiskFifths == [low |-> 6, medium |-> 5, high |-> 4]

RawTwentieths ==
    profile.income * response[1].factors.incomeMultiplier
        * (4 + profile.dependents) * RiskFifths[profile.riskTolerance]

\* round(raw / 10000) * 10000 with a tie going up
Snapped == ((RawTwentieths + 100000) \div 200000) * 10000

Scenario1 == [age |-> 35, income |-> 75000, dependents |-> 2, riskTolerance |-> "medium"]

\* C1: every returned coverage is at least 100000.
\* The service violates it: an income below 3334 is capped at 30 x income.
C1_CoverageFloor == Returned => Policy.coverage >= 100000

\* C2: every returned coverage is a multiple of 10000, also when the
\* 30x-income cap is the binding limit.
\* The service violates it: the cap is applied after the snapping.
C2_CoverageMultiple == Returned => Policy.coverage % 10000 = 0

\* C3: for every profile with income > 0 the returned monthlyPremium is an
\* integer strictly greater than 0.
\* The service violates it: a coverage capped far below the floor is priced at 0.
C3_PremiumPositive ==
    (Returned /\ profile.income > 0) =>
        (Policy.monthlyPremium \in Nat /\ Policy.monthlyPremium > 0)

\* C4: for every profile with income x 30 >= 100000 the returned coverage is
\* at most income x 30.
C4_CoverageCap ==
    (Returned /\ profile.income * 30 >= 100000) =>
        Policy.coverage <= profile.income * 30

\* a state in which the cap is the binding limit (the snapped value was larger)
C4_Witness ==
    /\ Returned
    /\ profile.income * 30 >= 100000
    /\ Snapped > profile.income * 30
    /\ Policy.coverage = profile.income * 30

C6_CapWinsBelowFloor ==
    (Returned /\ profile.income * 30 < 100000) =>
        /\ Policy.coverage = profile.income * 30
        /\ Policy.coverage < 100000
        /\ profile.income = 0 => Policy.coverage = 0

C6_Witness ==
    /\ Returned
    /\ profile.income = 3333
    /\ Policy.coverage = 99990

C8_PolicyType ==
    Returned =>
        /\ Policy.type =
               (IF profile.riskTolerance = "low" /\ profile.income > 150000
                THEN "Whole Life"
                ELSE IF profile.riskTolerance = "medium" /\ profile.income > 200000
                        /\ profile.age < 50
                THEN "Universal Life"
                ELSE "Term Life")
        /\ (profile.riskTolerance = "low" /\ profile.income = 200000) =>
               Policy.type = "Whole Life"
        /\ (profile.age = 60 /\ profile.income = 300000 /\ profile.riskTolerance = "low") =>
               Policy.type = "Whole Life"
        /\ (profile.age = 45 /\ profile.income = 250000 /\ profile.riskTolerance = "medium") =>
               Policy.type = "Universal Life"

C8_Witness ==
    /\ Returned
    /\ profile.age = 45
    /\ profile.income = 250000
    /\ profile.riskTolerance = "medium"
    /\ Policy.type = "Universal Life"

\* C9: term is 30 for age < 35, 20 for 35..44, 15 for 45..54, 10 for age >= 55,
\* hence always one of 10, 15, 20, 30.
C9_TermBands ==
    Returned =>
        /\ profile.age < 35 => Policy.term = 30
        /\ profile.age \in 35..44 => Policy.term = 20
        /\ profile.age \in 45..54 => Policy.term = 15
        /\ profile.age >= 55 => Policy.term = 10
        /\ Policy.term \in {10, 15, 20, 30}

C9_Witness ==
    /\ Returned
    /\ profile.age = 54
    /\ Policy.term = 15

\* C10: the term is non-increasing in age: of two invocations the one with
\* the greater age never gets the longer term, and between two successive ages
\* the term drops exactly when the greater one is 35, 45 or 55.
C10_TermMonotone ==
    (Returned /\ earlier # <<>>) =>
        LET a1 == earlier[1].profile.age
            t1 == earlier[1].response.recommendation.term
            a2 == profile.age
            t2 == Policy.term
        IN  /\ a1 <= a2 => t1 >= t2
            /\ a2 <= a1 => t2 >= t1
            /\ a2 = a1 + 1 => (t2 < t1 <=> a2 \in {35, 45, 55})

C10_Witness ==
    /\ Returned
    /\ earlier # <<>>
    /\ earlier[1].profile.age = 44
    /\ profile.age = 45
    /\ earlier[1].response.recommendation.term = 20
    /\ Policy.term = 15

----------------------------------------------------------------------------
(* Factors and premium of a returned recommendation *)

\* round(raw / 10000) * 10000 for a given income multiplier m
SnappedWith(m) ==
    ((profile.income * m * (4 + profile.dependents) * RiskFifths[profile.riskTolerance]
      + 100000) \div 200000) * 10000

SizedWith(m) ==
    LET floored == IF SnappedWith(m) < 100000 THEN 100000 ELSE SnappedWith(m)
    IN  IF floored > profile.income * 30 THEN profile.income * 30 ELSE floored

AgeBand == 
    IF profile.age < 30 THEN 15
    ELSE IF profile.age <= 39 THEN 12
    ELSE IF profile.age <= 49 THEN 10
    ELSE 8

TermFactorTenths == [t \in {10, 15, 20, 30} |->
                        IF t = 10 THEN 12 ELSE IF t = 15 THEN 11 ELSE IF t = 20 THEN 10 ELSE 9]

TypeFactorTenths == [t \in {"Term Life", "Whole Life", "Universal Life"} |->
                        IF t = "Term Life" THEN 10 ELSE IF t = "Whole Life" THEN 35 ELSE 25]

RiskLoadHundredths == [low |-> 105, medium |-> 100, high |-> 95]

\* coverage/1000 x 0.5 x termFactor x typeFactor x riskLoad x 1.045^(age - 25),
\* the age loading applied last
PremiumValue ==
    [num |-> BigMulSmall(BigMulSmall(BigMulSmall(BigFromInt(Policy.coverage * 5),
                                                 TermFactorTenths[Policy.term], 0),
                                     TypeFactorTenths[Policy.type], 0),
                         RiskLoadHundredths[profile.riskTolerance], 0),
     e |-> 3 + 1 + 1 + 1 + 2,
     p |-> profile.age - 25]

----------------------------------------------------------------------------
(* C12: for every age, income and number of dependents the coverage        *)
(* recommended for risk tolerance low is at least the one for medium,      *)
(* which is at least the one for high, and the reported riskAdjustment is  *)
(* 1.2, 1.0 and 0.8 respectively.  compareOptions evaluates the profile as *)
(* given, with low and with high; the profile as given covers medium.      *)

Compared == pc = "compared"

OptionCoverage(i) == options[i].recommendation.coverage

C12_RiskOrdersCoverage ==
    Compared =>
        /\ OptionCoverage(2) >= OptionCoverage(1)
        /\ OptionCoverage(1) >= OptionCoverage(3)
        /\ options[2].factors.riskAdjustment = [num |-> <<12>>, e |-> 1, p |-> 0]
        /\ options[3].factors.riskAdjustment = [num |-> <<8>>, e |-> 1, p |-> 0]
        /\ profile.riskTolerance = "medium"
               => options[1].factors.riskAdjustment = [num |-> <<1>>, e |-> 0, p |-> 0]

C12_Witness ==
    /\ Compared
    /\ profile.riskTolerance = "medium"
    /\ OptionCoverage(2) > OptionCoverage(1)
    /\ OptionCoverage(1) > OptionCoverage(3)

----------------------------------------------------------------------------
(* C14: an invocation with a valid profile always returns, and the result  *)
(* it returns has type, coverage, term, monthlyPremium, explanation and    *)
(* the three factors populated.                                            *)

IsNumber(x) == x.num \in Seq(Nat) /\ x.e \in Nat /\ x.p \in Int

C14_CompleteResult ==
    /\ pc \in {"called", "returned"}
    /\ Returned =>
        /\ DOMAIN response[1] = {"recommendation", "explanation", "factors"}
        /\ DOMAIN Policy = {"type", "coverage", "term", "monthlyPremium"}
        /\ Policy.type \in {"Term Life", "Whole Life", "Universal Life"}
        /\ Policy.coverage \in Nat
        /\ Policy.term \in {10, 15, 20, 30}
        /\ Policy.monthlyPremium \in Nat
        /\ response[1].explanation # <<>>
        /\ \A i \in DOMAIN response[1].explanation :
               response[1].explanation[i] \notin {"", undefined}
        /\ DOMAIN response[1].factors
               = {"incomeMultiplier", "dependentsFactor", "riskAdjustment"}
        /\ response[1].factors.incomeMultiplier \in {8, 10, 12, 15}
        /\ IsNumber(response[1].factors.dependentsFactor)
        /\ IsNumber(response[1].factors.riskAdjustment)

C14_Witness ==
    /\ Returned
    /\ profile.age = 100
    /\ profile.income = 300000
    /\ profile.dependents = MaxDependents
    /\ Policy.monthlyPremium > 0
    /\ Len(response[1].explanation) > 6

----------------------------------------------------------------------------
(* C15 as stated: an invocation changes nothing outside the returned       *)
(* value and performs no input or output.  An invocation is the step from  *)
(* "called" to "returned".                                                 *)

Invocation == pc = "called" /\ pc' = "returned"

C15_NoSideEffects ==
    [][Invocation => UNCHANGED <<locale, profile, earlier, logged, options, callerVars, siteVars, apiVars>>]_vars

(* C15 as amended: an invocation leaves the profile, the process's locale  *)
(* and every other state outside the returned value unchanged, except that *)
(* it writes two info records through the shared logger: the profile on    *)
(* entry and the policy fields before returning.                           *)

C15_OnlyLogs ==
    [][Invocation =>
          /\ UNCHANGED <<locale, profile, earlier, options, callerVars, siteVars, apiVars>>
          /\ logged' = logged
                \o <<[level |-> "info",
                      message |-> "Calculating recommendation for profile",
                      meta |-> profile],
                     [level |-> "info",
                      message |-> "Recommendation calculated",
                      meta |-> response'[1].recommendation]>>]_vars

C15_Witness ==
    /\ Returned
    /\ Len(logged) = 2
    /\ logged[1].meta = profile
    /\ logged[2].meta = Policy
    /\ earlier = <<>>

----------------------------------------------------------------------------
(* C16: whatever the order in which concurrent callers' invocations run on *)
(* the shared instance, each caller's result is the one an invocation with *)
(* its profile gives when nothing else has run.                            *)

----------------------------------------------------------------------------
(* C17: the explanation is six sections in the order age, income,          *)
(* dependents, risk, policy type, closing, joined by single spaces, with   *)
(* one variant per section: the age variant by age < 35, 35..49, >= 50;    *)
(* the dependents variant by dependents = 0 or > 0, with the word          *)
(* 'dependent' exactly when dependents = 1; the risk variant by            *)
(* riskTolerance; the policy variant by the returned type; and the closing *)
(* section states the returned coverage.                                   *)

AgeSection ==
    IF profile.age < 35 THEN ageTextYoung(profile.age, Policy.term)
    ELSE IF profile.age <= 49 THEN ageTextWorking(profile.age, Policy.term)
    ELSE ageTextSenior(profile.age, Policy.term)

IncomeSection ==
    incomeText(toLocaleString(profile.income), response[1].factors.incomeMultiplier)

DependentsSection ==
    IF profile.dependents = 0 THEN dependentsTextNone
    ELSE dependentsTextSome(profile.dependents,
                            IF profile.dependents = 1 THEN "dependent" ELSE "dependents",
                            NumberToString(25 * profile.dependents))

RiskSection ==
    CASE profile.riskTolerance = "low"    -> riskExplanations.low
      [] profile.riskTolerance = "medium" -> riskExplanations.medium
      [] profile.riskTolerance = "high"   -> riskExplanations.high

PolicySection ==
    CASE Policy.type = "Whole Life"     -> typeTextWhole
      [] Policy.type = "Universal Life" -> typeTextUniversal
      [] Policy.type = "Term Life"      -> typeTextTerm

ClosingSection == closingText(toLocaleString(Policy.coverage))

C17_ExplanationSections ==
    Returned =>
        response[1].explanation
            = AgeSection \o <<" ">> \o IncomeSection \o <<" ">> \o DependentsSection
              \o <<" ">> \o RiskSection \o <<" ">> \o PolicySection \o <<" ">>
              \o ClosingSection

C17_Witness ==
    /\ Returned
    /\ profile.age = 35
    /\ profile.dependents = 1
    /\ Policy.type = "Whole Life"
    /\ response[1].explanation
           = ageTextWorking(35, 20) \o <<" ">> \o IncomeSection \o <<" ">>
             \o dependentsTextSome(1, "dependent", "25") \o <<" ">>
             \o riskExplanations.low \o <<" ">> \o typeTextWhole \o <<" ">>
             \o ClosingSection

----------------------------------------------------------------------------
(* Properties of the HTTP API *)

\* the request has been answered
Answered == stage = "done"

\* the answer to a POST that was computed and stored
Created ==
    /\ Answered
    /\ request.route = PostRecommendation
    /\ reply[1].status = 200

(* C18: for the README's request (age 35, income 75000, dependents 2,      *)
(* riskTolerance medium) POST /recommendation answers with type Term Life, *)
(* coverage 750000, term 20, monthlyPremium 45 and factors                 *)
(* incomeMultiplier 10, dependentsFactor 1.5, riskAdjustment 1.0.          *)
C18_DocumentedExample ==
    (Created /\ request.body = sanitizedBody(ExampleBody)) =>
        /\ reply[1].body.recommendation
               = [type |-> "Term Life", coverage |-> 750000, term |-> 20,
                  monthlyPremium |-> 45]
        /\ reply[1].body.factors
               = [incomeMultiplier |-> 10,
                  dependentsFactor |-> [num |-> <<15>>, e |-> 1, p |-> 0],
                  riskAdjustment   |-> [num |-> <<1>>, e |-> 0, p |-> 0]]

\* what the code answers to that request
C18_Answer ==
    /\ Created
    /\ request.body = sanitizedBody(ExampleBody)
    /\ reply[1].body.recommendation
           = [type |-> "Term Life", coverage |-> 1350000, term |-> 20,
              monthlyPremium |-> 1048]
    /\ reply[1].body.factors
           = [incomeMultiplier |-> 12,
              dependentsFactor |-> [num |-> <<15>>, e |-> 1, p |-> 0],
              riskAdjustment   |-> [num |-> <<1>>, e |-> 0, p |-> 0]]

\* the token the request carries: what follows the first space of its
\* Authorization header
Carried ==
    IF Len(request.authorization) >= 2 THEN request.authorization[2] ELSE EmptyToken

Unauthenticated ==
    \/ Carried.text = ""
    \/ Carried.signature # "valid"
    \/ Carried.expired

Refusal ==
    IF Carried.text = ""
    THEN Send(401, [error |-> "Access token required"])
    ELSE Send(403, [error |-> "Invalid or expired token"])

(* C19: on the three routes a request that carries no token is answered    *)
(* 401 and one whose token is invalid or expired is answered 403; while    *)
(* such a request is served the engine is not invoked (no profile, no      *)
(* result, no log record), no connection is checked out and no statement   *)
(* is sent to the database.                                                *)
C19_AuthenticatedOnly ==
    (stage # "idle" /\ Unauthenticated) =>
        /\ stage \in {"received", "done"}
        /\ Answered => reply = Refusal
        /\ profile = <<>>
        /\ response = <<>>
        /\ logged = <<>>
        /\ statements = <<>>
        /\ checkedOut = 0
        /\ pending = <<>>

\* an expired token is refused the history of the user it names
C19_Witness ==
    /\ Answered
    /\ request.route = GetRecommendations
    /\ request.authorization = <<"Bearer", ExpiredToken>>
    /\ reply = Send(403, [error |-> "Invalid or expired token"])
    /\ rows # <<>>
    /\ rows[1].user_id = ExpiredToken.payload.id
    /\ statements = <<>>

\* the preconditions of the engine, on the values of a body: a number or a
\* numeric text counts as the integer it denotes
Satisfying(body) ==
    /\ body.age.type \in {"number", "string"}
    /\ isInt(body.age, [min |-> MIN_AGE, max |-> MAX_AGE])
    /\ body.income.type \in {"number", "string"}
    /\ isInt(body.income, [min |-> 0])
    /\ body.dependents.type \in {"number", "string"}
    /\ isInt(body.dependents, [min |-> 0])
    /\ body.riskTolerance.type = "string"
    /\ body.riskTolerance.text \in RiskTolerances

(* C20: the engine is invoked only with a profile that satisfies the       *)
(* preconditions, and an authenticated POST /recommendation whose body     *)
(* violates one is answered 400 'Validation Error' with nothing computed   *)
(* and no statement sent to the database.                                  *)
C20_EngineGuarded ==
    /\ (stage # "idle" /\ profile # <<>>) => Satisfying(profile)
    /\ (/\ Answered
        /\ request.route = PostRecommendation
        /\ user # <<>>
        /\ userId # 0
        /\ ~Satisfying(request.body))
       => /\ profile = <<>>
          /\ response = <<>>
          /\ statements = <<>>
          /\ reply[1].status = 400
          /\ DOMAIN reply[1].body = {"error", "details"}
          /\ reply[1].body.error = "Validation Error"

\* what the code does with an age that is an array of one valid age
C20_ArrayAge ==
    /\ Answered
    /\ request.route = PostRecommendation
    /\ request.body.age = JArray(<<JNumber(35)>>)
    /\ profile = request.body
    /\ response # <<>>
    /\ Len(statements) = 3
    /\ statements[2].sql = "INSERT INTO recommendations"
    /\ thrown = <<InvalidTextRepresentation>>
    /\ reply[1].status = 400
    /\ reply[1].body.error.message = "Invalid input syntax"
    /\ rows = <<>>

----------------------------------------------------------------------------
(* Persisting a computed recommendation *)

InsertStatement ==
    Statement("INSERT INTO recommendations", InsertValues(userId, profile, response[1]))

\* the statements of a request whose transaction failed end with ROLLBACK
RolledBack ==
    /\ statements # <<>>
    /\ statements[Len(statements)] = Statement("ROLLBACK", <<>>)
    /\ \A i \in 1..(Len(statements) - 1) : statements[i].sql # "ROLLBACK"

(* C21: a POST /recommendation is answered 200 only after BEGIN, the       *)
(* INSERT of the profile and the full result, and COMMIT have succeeded,   *)
(* and the answer is the result with the id and created_at of the row      *)
(* inserted; when BEGIN, INSERT or COMMIT fails nothing is sent before     *)
(* ROLLBACK is issued, and the answer is then the error handler's, without *)
(* the recommendation.                                                     *)
C21_CommitBeforeResponse ==
    /\ Created =>
          /\ thrown = <<>>
          /\ statements = <<Statement("BEGIN", <<>>), InsertStatement,
                            Statement("COMMIT", <<>>)>>
          /\ \E i \in DOMAIN rows :
                /\ rows[i] = StoredRow(InsertStatement.params, reply[1].body.id)
                /\ rows[i].created_at = reply[1].body.timestamp
          /\ reply[1].body.recommendation = response[1].recommendation
          /\ reply[1].body.explanation = response[1].explanation
          /\ reply[1].body.factors = response[1].factors
    /\ stage = "failed" => reply = <<>> /\ thrown # <<>>
    /\ (Answered /\ request.route = PostRecommendation /\ statements # <<>>
        /\ thrown # <<>>)
       => /\ RolledBack
          /\ reply = errorHandler(thrown[1])
          /\ reply[1].status # 200
          /\ "recommendation" \notin DOMAIN reply[1].body

C21_Witness ==
    /\ Created
    /\ rows # <<>>
    /\ reply[1].body.id = rows[1].id
    /\ reply[1].body.timestamp = rows[1].created_at
    /\ Len(statements) = 3

\* a failed COMMIT answered by the error handler
C21_FailedCommit ==
    /\ Answered
    /\ request.route = PostRecommendation
    /\ Len(statements) = 4
    /\ statements[3].sql = "COMMIT"
    /\ RolledBack
    /\ reply[1].status = 500

----------------------------------------------------------------------------
(* The connection pool *)

\* the handler of POST /recommendation is between db.connect() and the end
\* of its finally block
InTransaction == stage \in {"connected", "begun", "inserted", "failed"}

(* C29: in POST /recommendation the client obtained from db.connect() is   *)
(* held exactly while the handler is between connect and the end of its    *)
(* finally block, and is released once, whichever of BEGIN, INSERT, COMMIT *)
(* or ROLLBACK succeeds or throws: when the request has been answered no   *)
(* client is checked out, and the count of clients never goes below zero.  *)
C29_ClientReleased ==
    /\ checkedOut \in {0, 1}
    /\ checkedOut = 1 <=> InTransaction
    /\ Answered => checkedOut = 0

\* ROLLBACK itself threw after a failed INSERT, and the client is back
C29_Witness ==
    /\ Answered
    /\ request.route = PostRecommendation
    /\ Len(statements) = 3
    /\ statements[2].sql = "INSERT INTO recommendations"
    /\ RolledBack
    /\ profile = sanitizedBody(ExampleBody)
    /\ thrown = <<ConnectionLost>>
    /\ checkedOut = 0

----------------------------------------------------------------------------
(* The table's constraints *)

\* the handler has sent the INSERT of the request being served
InsertSent ==
    /\ stage # "idle"
    /\ request.route = PostRecommendation
    /\ \E i \in DOMAIN statements : statements[i] = InsertStatement

(* C23: the row a validated body leads to satisfies the CHECK constraints  *)
(* coverage_amount > 0 and monthly_premium > 0 of table recommendations,   *)
(* so no validated request is rolled back and answered with an error       *)
(* because of them.                                                        *)
C23_RowAccepted ==
    (InsertSent /\ Satisfying(profile)) =>
        /\ InsertStatement.params.coverage_amount > 0
        /\ InsertStatement.params.monthly_premium > 0
        /\ thrown # <<CheckViolation>>

\* what the code does with an income of 0
C23_IncomeZero ==
    /\ Answered
    /\ InsertSent
    /\ profile = sanitizedBody([ExampleBody EXCEPT !.income = JNumber(0)])
    /\ InsertStatement.params.coverage_amount = 0
    /\ InsertStatement.params.monthly_premium = 0
    /\ thrown = <<CheckViolation>>
    /\ RolledBack
    /\ reply[1].status = 500
    /\ rows = <<>>

----------------------------------------------------------------------------
(* Incomes of any size.  Validation bounds income from below only, so the  *)
(* engine and the INSERT are followed here with income and coverage as     *)
(* limbs; the doubles involved are exact below 2^53.                       *)

\* a < b on limbs
BigLess(a, b) ==
    LET x == BigStrip(a)
        y == BigStrip(b)
    IN  IF Len(x) # Len(y) THEN Len(x) < Len(y)
        ELSE \E i \in DOMAIN x :
                /\ x[i] < y[i]
                /\ \A j \in (i + 1)..Len(x) : x[j] = y[j]

BigMax(a, b) == IF BigLess(a, b) THEN BigStrip(b) ELSE BigStrip(a)
BigMin(a, b) == IF BigLess(b, a) THEN BigStrip(b) ELSE BigStrip(a)

\* Math.round of a non-negative finite decimal, in limbs
BigRound(x) ==
    BigDivSmall(BigAdd(BigDivPow10(BigMulSmall(x.num, 2, 0), x.e), <<1>>, 0), 2)

\* calculateCoverage of an income given in limbs
calculateCoverageWide(income, incomeMultiplier, dependentsFactor, riskAdjustment) ==
    LET raw == RealMul(RealMul(RealMul([num |-> income, e |-> 0, p |-> 0],
                                       RealOfInt(incomeMultiplier)),
                               dependentsFactor),
                       riskAdjustment)
        rounded == BigShift(BigRound(RealDivPow10(raw, 4)), 1)
        floored == BigMax(rounded, BigFromInt(MIN_COVERAGE))
        maxCoverage == BigMulSmall(income, INCOME_CAP_MULTIPLIER, 0)
    IN  BigMin(floored, maxCoverage)

\* the largest value of an INTEGER column
IntegerMax == BigFromInt(2147483647)

NumericValueOutOfRange == [code |-> "22003", message |-> "integer out of range"]

\* incomes around the largest whose thirtyfold fits the column, and around
\* the largest that fits it
WideIncomes ==
    {BigFromInt(0), BigFromInt(75000), BigFromInt(71582788), BigFromInt(71582789),
     BigFromInt(100000000), IntegerMax, BigAdd(IntegerMax, <<1>>, 0)}

WideProfiles ==
    [age : {25, 35, 45, 55}, income : WideIncomes, dependents : 0..MaxDependents,
     riskTolerance : RiskTolerances]

InitWide ==
    /\ locale \in Locales
    /\ profile \in WideProfiles
    /\ pc = "validated"
    /\ response = <<>>
    /\ earlier = <<>>
    /\ logged = <<>>
    /\ options = <<>>
    /\ NoCallers
    /\ NoRequests
    /\ Quiet

\* the handler of POST /recommendation from the engine's invocation to the
\* INSERT, for the two columns that grow with the income
InsertWide ==
    /\ pc = "validated"
    /\ LET coverage ==
               calculateCoverageWide(
                   profile.income, getIncomeMultiplier(profile.age),
                   RealAdd1(1, RealMul(RealOfInt(profile.dependents),
                                       DEPENDENT_MULTIPLIER)),
                   RISK_ADJUSTMENTS[profile.riskTolerance])
           fits == /\ ~BigLess(IntegerMax, profile.income)
                   /\ ~BigLess(IntegerMax, coverage)
       IN  /\ response' = <<[income |-> profile.income, coverage_amount |-> coverage]>>
           /\ thrown' = IF fits THEN <<>> ELSE <<NumericValueOutOfRange>>
           /\ pc' = IF fits THEN "inserted" ELSE "failed"
    /\ UNCHANGED <<locale, profile, earlier, logged, options, callerVars, siteVars, request,
                   stage, user, reply, rows, pending, nextId, statements,
                   checkedOut>>

NextWide == InsertWide

SpecWide == InitWide /\ [][NextWide]_vars

(* C24: for every income validation accepts, the income and the coverage   *)
(* computed from it, as written to the INTEGER columns income and          *)
(* coverage_amount, are within 0..2147483647.                              *)
C24_WithinInteger ==
    pc \in {"inserted", "failed"} =>
        /\ ~BigLess(IntegerMax, response[1].income)
        /\ ~BigLess(IntegerMax, response[1].coverage_amount)
        /\ thrown = <<>>

\* an income that fits the column with a coverage that does not
C24_CoverageTooWide ==
    /\ pc = "failed"
    /\ profile.age = 25
    /\ profile.dependents = 2
    /\ profile.riskTolerance = "low"
    /\ response[1].income = BigFromInt(100000000)
    /\ response[1].coverage_amount = BigMulSmall(BigFromInt(100000000), 27, 0)
    /\ thrown = <<NumericValueOutOfRange>>

----------------------------------------------------------------------------
(* The statements of GET /recommendations *)

Listing == stage # "idle" /\ request.route = GetRecommendations

\* the query text is the count query, or the data query with a listed
\* column and direction between its constant parts
ListedText(sql) ==
    \/ sql = <<"SELECT COUNT(*) FROM recommendations WHERE user_id = $1">>
    \/ /\ Len(sql) = 5
       /\ sql[1] = "SELECT ... FROM recommendations WHERE user_id = $1 ORDER BY "
       /\ sql[2] \in {"created_at", "coverage_amount", "age", "income", "monthly_premium"}
       /\ sql[3] = " "
       /\ sql[4] \in {"ASC", "DESC"}
       /\ sql[5] = " LIMIT $2 OFFSET $3"

\* the request gives a sortBy or an order that is not a listed value
Unlisted ==
    \/ /\ request.query.sortBy.type # "undefined"
       /\ request.query.sortBy.text
              \notin {"created_at", "coverage_amount", "age", "income", "monthly_premium"}
    \/ /\ request.query.order.type # "undefined"
       /\ request.query.order.text \notin {"asc", "desc"}

(* C22: in GET /recommendations the text of every query sent is constant   *)
(* except for sortBy and order, which appear in it only as one of          *)
(* created_at, coverage_amount, age, income, monthly_premium and one of     *)
(* ASC, DESC; the user id, limit and offset are bound parameters; and a    *)
(* request of an authenticated user whose sortBy or order is any other     *)
(* value is answered 400 with no query sent.                               *)
C22_OnlyListedInterpolated ==
    Listing =>
        /\ \A i \in DOMAIN statements :
              /\ ListedText(statements[i].sql)
              /\ \A j \in DOMAIN statements[i].params :
                    statements[i].params[j] \in Nat
        /\ (Answered /\ user # <<>> /\ userId # 0 /\ Unlisted) =>
              /\ reply[1].status = 400
              /\ statements = <<>>

C22_Witness ==
    /\ Listing
    /\ Answered
    /\ request.query.sortBy = JString("age")
    /\ request.query.order = JString("asc")
    /\ reply[1].status = 200
    /\ Len(statements) = 2
    /\ statements[2].sql[2] = "age"
    /\ statements[2].sql[4] = "ASC"
    /\ statements[2].params = <<userId, 10, 0>>

\* two listed columns given as an array pass the validation chain and are
\* refused by the handler
C22_RefusedByHandler ==
    /\ Listing
    /\ Answered
    /\ request.query.sortBy = JArray(<<JString("age"), JString("income")>>)
    /\ reply = Send(400, [error |-> "Invalid sort column"])
    /\ statements = <<>>

----------------------------------------------------------------------------
(* Whose rows a user is shown *)

\* the stored row with the id
Stored(id) == SelectSeq(rows, LAMBDA r : r.id = id)

Served == Answered /\ reply[1].status = 200

(* C25: every row in an answer of GET /recommendations is a stored row of  *)
(* the user the token names, the row answered by GET /recommendations/:id  *)
(* is a stored row of that user, and asking for the id of a row another    *)
(* user created is answered 404 (when the query itself succeeds).          *)
C25_OwnRowsOnly ==
    /\ (Served /\ request.route = GetRecommendations) =>
          \A i \in DOMAIN reply[1].body.data :
              LET row == Stored(reply[1].body.data[i].id)
              IN  /\ Len(row) = 1
                  /\ row[1].user_id = userId
                  /\ Selected(row)[1] = reply[1].body.data[i]
    /\ (Served /\ request.route = GetRecommendation) =>
          /\ reply[1].body.user_id = userId
          /\ Stored(reply[1].body.id) = <<reply[1].body>>
    /\ (/\ Answered
        /\ request.route = GetRecommendation
        /\ thrown = <<>>
        /\ IsIntText(request.id)
        /\ Stored(ParseInt(request.id)) # <<>>
        /\ Stored(ParseInt(request.id))[1].user_id # userId)
       => reply = Send(404, [error |-> "Recommendation not found"])

\* the table holds a row of each user and the list shows user 2 its own
C25_Witness ==
    /\ Served
    /\ request.route = GetRecommendations
    /\ userId = 2
    /\ Len(rows) = 2
    /\ rows[1].user_id = 1
    /\ rows[2].user_id = 2
    /\ Len(reply[1].body.data) = 1
    /\ reply[1].body.data[1].id = rows[2].id
    /\ reply[1].body.pagination.total = 1

\* user 2 asks for the row of user 1
C25_NotFound ==
    /\ Answered
    /\ request.route = GetRecommendation
    /\ userId = 2
    /\ request.id = "1"
    /\ Stored(1) # <<>>
    /\ Stored(1)[1].user_id = 1
    /\ thrown = <<>>
    /\ reply[1].status = 404

----------------------------------------------------------------------------
(* The three options of compareOptions *)

OptionPremium(i) == options[i].recommendation.monthlyPremium

\* the options' labels, priorities and profiles, in order
C27_OptionsInOrder ==
    Compared =>
        /\ Len(options) = 3
        /\ options[1].label = "Recommended" /\ options[1].priority = 1
        /\ options[1] = Spread(calculateRecommendation(profile),
                               [label |-> "Recommended", priority |-> 1])
        /\ options[2].label = "Maximum Protection" /\ options[2].priority = 2
        /\ options[2] = Spread(calculateRecommendation(
                                   [profile EXCEPT !.riskTolerance = "low"]),
                               [label |-> "Maximum Protection", priority |-> 2])
        /\ options[3].label = "Budget-Friendly" /\ options[3].priority = 3
        /\ options[3] = Spread(calculateRecommendation(
                                   [profile EXCEPT !.riskTolerance = "high"]),
                               [label |-> "Budget-Friendly", priority |-> 3])

(* C27: compareOptions returns exactly three options in the order          *)
(* Recommended (priority 1, the profile as given), Maximum Protection      *)
(* (priority 2, riskTolerance low), Budget-Friendly (priority 3,           *)
(* riskTolerance high), and coverage and monthlyPremium both satisfy       *)
(* Budget-Friendly <= Recommended <= Maximum Protection.                   *)
C27_OptionsOrdered ==
    Compared =>
        /\ C27_OptionsInOrder
        /\ OptionCoverage(3) <= OptionCoverage(1)
        /\ OptionCoverage(1) <= OptionCoverage(2)
        /\ OptionPremium(3) <= OptionPremium(1)
        /\ OptionPremium(1) <= OptionPremium(2)

\* a profile whose three options differ in type, coverage and premium
C27_Witness ==
    /\ Compared
    /\ profile.riskTolerance = "medium"
    /\ options[1].recommendation.type = "Universal Life"
    /\ options[2].recommendation.type = "Whole Life"
    /\ options[3].recommendation.type = "Term Life"
    /\ OptionCoverage(3) < OptionCoverage(1)
    /\ OptionCoverage(1) < OptionCoverage(2)
    /\ OptionPremium(3) < OptionPremium(1)
    /\ OptionPremium(1) < OptionPremium(2)

----------------------------------------------------------------------------
(* The frontend: navigation between the pages of the Next.js application.   *)
(* A pathname is the sequence of its segments: <<>> is "/", <<"auth">> is   *)
(* "/auth", <<"profile", "edit">> is "/profile/edit".                       *)

Root == <<>>

AuthPath == <<"auth">>

protectedPaths == {Root, <<"profile">>, <<"recommendations">>, <<"settings">>}

publicPaths == {AuthPath, <<"about">>, <<"contact">>}

\* pathname === path || pathname.startsWith(`${path}/`), for some listed path
ListedIn(paths, pathname) ==
    \E path \in paths :
        \/ pathname = path
        \/ /\ path # Root
           /\ Len(pathname) > Len(path)
           /\ SubSeq(pathname, 1, Len(path)) = path

\* the pathnames a user enters or follows a link to
Pathnames ==
    protectedPaths \cup publicPaths
        \cup {<<"pricing">>, <<"profile", "edit">>, <<"auth", "reset">>}

\* a URL of the application with its redirect parameter, <<>> if it has none
Url(pathname, redirect) == [pathname |-> pathname, redirect |-> redirect]

\* the engine and the router are idle while the browser is looked at
Backstage ==
    /\ locale = "en-US"
    /\ profile = <<>>
    /\ pc = "idle"
    /\ response = <<>>
    /\ earlier = <<>>
    /\ logged = <<>>
    /\ options = <<>>
    /\ NoCallers
    /\ NoRequests

InitNavigation ==
    /\ Backstage
    /\ NoRegistrations
    /\ Running
    /\ cookie \in BOOLEAN
    /\ storage \in BOOLEAN
    /\ location = <<>>
    /\ page = "closed"

\* the user enters a URL or follows a link: the browser requests the page
Open ==
    /\ page \in {"closed", "settled"}
    /\ \E pathname \in Pathnames :
       \E redirect \in {<<>>} \cup {<<target>> : target \in Pathnames} :
           /\ redirect # <<>> => pathname = AuthPath
           /\ location' = Url(pathname, redirect)
    /\ page' = "requested"
    /\ UNCHANGED <<engineVars, callerVars, apiVars, authVars, processVars, cookie, storage>>

\* the middleware answers the request for location; the browser sends the
\* cookie and no authorization header, and follows a redirect by requesting
\* the URL it names
middleware ==
    /\ page = "requested"
    /\ LET token == cookie
           pathname == location.pathname
           isProtectedPath == ListedIn(protectedPaths, pathname)
           isPublicPath == ListedIn(publicPaths, pathname)
       IN  IF isProtectedPath /\ ~token
           THEN /\ location' = Url(AuthPath, <<pathname>>)
                /\ page' = "requested"
           ELSE IF isPublicPath /\ pathname = AuthPath /\ token
           THEN /\ location' = Url(Root, <<>>)
                /\ page' = "requested"
           ELSE /\ page' = "mounted"
                /\ UNCHANGED location
    /\ UNCHANGED <<engineVars, callerVars, apiVars, authVars, processVars, cookie, storage>>

\* getAuthToken in the browser: the cookie's value, else localStorage's item
isAuthenticated == cookie \/ storage

\* searchParams.get('redirect') || '/'
redirectTo == IF location.redirect = <<>> THEN Root ELSE location.redirect[1]

\* router.push(href): the router requests href from the server
Push(href) ==
    /\ location' = Url(href, <<>>)
    /\ page' = "requested"

\* the effect of AuthPage, run when the page has mounted
AuthPageEffect ==
    /\ page = "mounted"
    /\ location.pathname = AuthPath
    /\ IF isAuthenticated
       THEN Push(redirectTo)
       ELSE /\ page' = "settled"
            /\ UNCHANGED location
    /\ UNCHANGED <<engineVars, callerVars, apiVars, authVars, processVars, cookie, storage>>

\* the effect of Home (checkAuth), run when the page has mounted
HomeEffect ==
    /\ page = "mounted"
    /\ location.pathname = Root
    /\ IF ~isAuthenticated
       THEN Push(AuthPath)
       ELSE /\ page' = "settled"
            /\ UNCHANGED location
    /\ UNCHANGED <<engineVars, callerVars, apiVars, authVars, processVars, cookie, storage>>

\* any other pathname shows a page without a redirecting effect
OtherPage ==
    /\ page = "mounted"
    /\ location.pathname \notin {AuthPath, Root}
    /\ page' = "settled"
    /\ UNCHANGED <<engineVars, callerVars, apiVars, authVars, processVars, cookie, storage, location>>

\* LoginForm or RegisterForm succeeded: setAuthToken, then router.push
handleAuthSuccess ==
    /\ page = "settled"
    /\ location.pathname = AuthPath
    /\ cookie' = TRUE
    /\ storage' = TRUE
    /\ Push(redirectTo)
    /\ UNCHANGED <<engineVars, callerVars, apiVars, authVars, processVars>>

\* the Logout button of Home, or authFetch answered 401 or 403:
\* removeAuthToken, then window.location.href = '/auth'
logout ==
    /\ page = "settled"
    /\ location.pathname = Root
    /\ cookie' = FALSE
    /\ storage' = FALSE
    /\ location' = Url(AuthPath, <<>>)
    /\ page' = "requested"
    /\ UNCHANGED <<engineVars, callerVars, apiVars, authVars, processVars>>

\* the cookie was set with max-age of one day; localStorage does not expire
CookieExpires ==
    /\ cookie
    /\ cookie' = FALSE
    /\ UNCHANGED <<engineVars, callerVars, apiVars, authVars, processVars, storage, location, page>>

NextNavigation ==
    \/ Open
    \/ middleware
    \/ AuthPageEffect
    \/ HomeEffect
    \/ OtherPage
    \/ handleAuthSuccess
    \/ logout
    \/ CookieExpires

SpecNavigation == InitNavigation /\ [][NextNavigation]_vars

\* the server answers every request and React runs the effect of every
\* page it mounts; what the user does, and when, is left open
FairNavigation ==
    /\ SpecNavigation
    /\ WF_vars(middleware)
    /\ WF_vars(AuthPageEffect)
    /\ WF_vars(HomeEffect)
    /\ WF_vars(OtherPage)

C26_SentBack ==
    /\ ~cookie
    /\ storage
    /\ page = "mounted"
    /\ location = Url(AuthPath, <<Root>>)

\* with the token in the cookie, or in neither place, navigation settles
C26_SettlesWhenStoresAgree ==
    [](cookie \/ ~storage) => ((page = "requested") ~> (page = "settled"))

----------------------------------------------------------------------------
(* Registration: concurrent POST /api/auth/register requests.  Every await *)
(* of the handler is a point where another request's handler may run.      *)

MaxRegistrations == 2

Registrants == 1..MaxRegistrations

\* the addresses registrants send; the last one is no e-mail address
Emails == {"Ann@Example.com", "ann@example.com", "bob@example.com", "ann.example.com"}

isEmail(text) == text # "ann.example.com"

\* the lower-case form of the model's texts
LowerCase == "Ann@Example.com" :> "ann@example.com"

\* LOWER(text) of PostgreSQL
LowerSql(text) == IF text \in DOMAIN LowerCase THEN LowerCase[text] ELSE text

\* validator's normalizeEmail: lower-cases the domain and, by default, the
\* local part
normalizeEmail(text) ==
    IF isEmail(text) /\ text \in DOMAIN LowerCase THEN LowerCase[text] ELSE text

RegisterBodies == [email : Emails, password : {"hunter22"}, name : {"Ann"}]

\* the errors of the three validation chains of the route
validateRegistration(body) ==
    IF isEmail(body.email) THEN <<>>
    ELSE <<[field |-> "email", message |-> "Invalid value"]>>

UniqueViolationError ==
    [code |-> "23505", message |-> "duplicate key value violates unique constraint"]

\* variant of the table without the UNIQUE constraint on email
UniqueViolated_Never(rs, email) == FALSE

\* email VARCHAR(255) UNIQUE: a row with this very email is stored
UniqueViolated(rs, email) == \E i \in DOMAIN rs : rs[i].email = email

\* jwt.sign({ id, email }, JWT_SECRET, { expiresIn: '24h' })
generateToken(id, email) == [id |-> id, email |-> email]

InitRegister ==
    /\ Backstage
    /\ NoBrowser
    /\ Running
    /\ users = [rows |-> <<>>, nextval |-> 1]
    /\ registrations \in [Registrants -> [body : RegisterBodies, pc : {"received"},
                                          email : {""}, thrown : {<<>>},
                                          reply : {<<>>}]]

\* registration r moves on: its fields and table users change as given
Proceed(r, at, email, error, answer) ==
    registrations' = [registrations EXCEPT ![r] =
                          [body |-> registrations[r].body, pc |-> at, email |-> email,
                           thrown |-> error, reply |-> answer]]

\* the validation chains and handleValidationErrors of the auth router
validateRegister(r) ==
    /\ registrations[r].pc = "received"
    /\ LET body == registrations[r].body
           errors == validateRegistration(body)
       IN  IF errors # <<>>
           THEN Proceed(r, "answered", body.email, <<>>,
                        Send(400, [error |-> "Validation failed", details |-> errors]))
           ELSE Proceed(r, "selecting", normalizeEmail(body.email), <<>>, <<>>)
    /\ UNCHANGED <<engineVars, callerVars, apiVars, browserVars, processVars, users>>

\* the catch block of the handler
RegistrationFailed(r, error) ==
    IF error.code = "23505"
    THEN Proceed(r, "answered", registrations[r].email, <<error>>,
                 Send(409, [error |-> "User already exists"]))
    ELSE Proceed(r, "answered", registrations[r].email, <<error>>,
                 Send(500, [error |-> "Registration failed", details |-> error.message]))

\* SELECT id FROM users WHERE LOWER(email) = LOWER($1)
SelectUser(r) ==
    /\ registrations[r].pc = "selecting"
    /\ LET email == registrations[r].email
           existingUser == SelectSeq(users.rows,
                               LAMBDA row : LowerSql(row.email) = LowerSql(email))
       IN  \E ok \in BOOLEAN :
               IF ~ok
               THEN RegistrationFailed(r, ConnectionRefused)
               ELSE IF Len(existingUser) > 0
               THEN Proceed(r, "answered", email, <<>>,
                            Send(409, [error |-> "User with this email already exists"]))
               ELSE Proceed(r, "hashing", email, <<>>, <<>>)
    /\ UNCHANGED <<engineVars, callerVars, apiVars, browserVars, processVars, users>>

\* await bcrypt.hash(password, 10)
HashPassword(r) ==
    /\ registrations[r].pc = "hashing"
    /\ Proceed(r, "inserting", registrations[r].email, <<>>, <<>>)
    /\ UNCHANGED <<engineVars, callerVars, apiVars, browserVars, processVars, users>>

\* INSERT INTO users (email, ...) VALUES (LOWER($1), ...) RETURNING id, email,
\* name, in its own transaction; nextval is taken before the constraint is
\* checked, and the connection may break before or after the statement ran
InsertUser(r) ==
    /\ registrations[r].pc = "inserting"
    /\ LET email == registrations[r].email
           inserted == [id |-> users.nextval, email |-> LowerSql(email),
                        name |-> registrations[r].body.name]
           stored == [rows |-> Append(users.rows, inserted),
                      nextval |-> users.nextval + 1]
       IN  \E outcome \in {"refused", "executed", "lost"} :
               IF outcome = "refused"
               THEN /\ RegistrationFailed(r, ConnectionRefused)
                    /\ UNCHANGED users
               ELSE IF UniqueViolated(users.rows, inserted.email)
               THEN /\ RegistrationFailed(r, UniqueViolationError)
                    /\ users' = [users EXCEPT !.nextval = @ + 1]
               ELSE IF outcome = "lost"
               THEN /\ RegistrationFailed(r, ConnectionLost)
                    /\ users' = stored
               ELSE /\ Proceed(r, "answered", email, <<>>,
                               Send(201, [message |-> "Registration successful",
                                          token |-> generateToken(inserted.id,
                                                                  inserted.email),
                                          user |-> inserted]))
                    /\ users' = stored
    /\ UNCHANGED <<engineVars, callerVars, apiVars, browserVars, processVars>>

NextRegister ==
    \E r \in Registrants :
        \/ validateRegister(r)
        \/ SelectUser(r)
        \/ HashPassword(r)
        \/ InsertUser(r)

SpecRegister == InitRegister /\ [][NextRegister]_vars

\* registration r has been answered with this status
AnsweredWith(r, status) ==
    /\ registrations[r].reply # <<>>
    /\ registrations[r].reply[1].status = status

\* the database executed every statement of registration r
DatabaseAnswered(r) ==
    \/ registrations[r].thrown = <<>>
    \/ registrations[r].thrown[1].code = "23505"

\* registrations r and q ask for the same address, ignoring case
SameEmail(r, q) ==
    /\ isEmail(registrations[r].body.email)
    /\ LowerSql(registrations[r].body.email) = LowerSql(registrations[q].body.email)

(* C28: under any interleaving of concurrent register requests, table      *)
(* users never holds two rows whose emails are equal ignoring case; of the *)
(* requests for one email at most one is answered 201 with a token, and    *)
(* every other one the database answered is answered 409.                  *)
C28_OneAccountPerEmail ==
    /\ \A i, j \in DOMAIN users.rows :
           i # j => LowerSql(users.rows[i].email) # LowerSql(users.rows[j].email)
    /\ \A r, q \in Registrants :
           r # q /\ SameEmail(r, q) /\ AnsweredWith(r, 201) =>
               /\ registrations[r].reply[1].body.token.email
                      = LowerSql(registrations[r].body.email)
               /\ ~AnsweredWith(q, 201)
               /\ registrations[q].reply # <<>> /\ DatabaseAnswered(q) =>
                      AnsweredWith(q, 409)

\* both requests found no row, the first stored one and the second was
\* refused by the UNIQUE constraint
C28_Witness ==
    /\ SameEmail(1, 2)
    /\ registrations[1].body.email # registrations[2].body.email
    /\ AnsweredWith(1, 201)
    /\ AnsweredWith(2, 409)
    /\ registrations[2].thrown = <<UniqueViolationError>>
    /\ Len(users.rows) = 1

----------------------------------------------------------------------------
(* The process: gracefulShutdown on SIGTERM and SIGINT.  server.close      *)
(* registers its callback for the server's 'close' event, which is emitted *)
(* once the server accepts no connection and has none left; on a server    *)
(* that is no longer listening it registers the callback all the same and  *)
(* emits 'close' again if no connection is left.  db.end calls back when   *)
(* every client has been returned, and at once, with an error, if the pool *)
(* is ending already.                                                      *)

MaxSignals == 2

MaxConnections == 3

Signals == {"SIGTERM", "SIGINT"}

InitShutdown ==
    /\ Backstage
    /\ NoBrowser
    /\ NoRegistrations
    /\ Running

Elsewhere == <<engineVars, callerVars, apiVars, browserVars, authVars>>

\* a client opens a connection to the listening server
Connect ==
    /\ exited = <<>>
    /\ server.state = "listening"
    /\ server.connections < MaxConnections
    /\ server' = [server EXCEPT !.connections = @ + 1]
    /\ UNCHANGED <<Elsewhere, pool, signals, exited>>

\* the handler of a request on an open connection checks a client out
Acquire ==
    /\ exited = <<>>
    /\ pool.state = "open"
    /\ pool.clients < server.connections
    /\ pool' = [pool EXCEPT !.clients = @ + 1]
    /\ UNCHANGED <<Elsewhere, server, signals, exited>>

\* the 'close' event runs the callbacks of server.close in turn: the first
\* db.end starts ending the pool and exits with 0 at once if no client is
\* out; a further db.end finds the pool ending and exits with 0 at once
Closed(listeners, db) ==
    IF listeners = 0 \/ db.state = "ended"
    THEN [pool |-> db, exited |-> <<>>]
    ELSE IF db.state = "ending"
    THEN [pool |-> db, exited |-> <<0>>]
    ELSE IF db.clients = 0
    THEN [pool |-> [db EXCEPT !.state = "ended"], exited |-> <<0>>]
    ELSE [pool |-> [db EXCEPT !.state = "ending"],
          exited |-> IF listeners > 1 THEN <<0>> ELSE <<>>]

\* a connection ends; the last one of a closing server lets it emit 'close'
Disconnect ==
    /\ exited = <<>>
    /\ server.connections > 0
    /\ LET drained == server.state = "closing" /\ server.connections = 1
           after == Closed(server.listeners, pool)
       IN  IF drained
           THEN /\ server' = [state |-> "closed", connections |-> 0, listeners |-> 0]
                /\ pool' = after.pool
                /\ exited' = after.exited
           ELSE /\ server' = [server EXCEPT !.connections = @ - 1]
                /\ UNCHANGED <<pool, exited>>
    /\ UNCHANGED <<Elsewhere, signals>>

\* a handler returns its client; the last one lets an ending pool call back
Release ==
    /\ exited = <<>>
    /\ pool.clients > 0
    /\ IF pool.state = "ending" /\ pool.clients = 1
       THEN /\ pool' = [state |-> "ended", clients |-> 0]
            /\ exited' = <<0>>
       ELSE /\ pool' = [pool EXCEPT !.clients = @ - 1]
            /\ UNCHANGED exited
    /\ UNCHANGED <<Elsewhere, server, signals>>

\* SIGTERM or SIGINT: server.close(callback), then setTimeout(..., 10000)
gracefulShutdown ==
    /\ exited = <<>>
    /\ Len(signals) < MaxSignals
    /\ \E signal \in Signals : signals' = Append(signals, signal)
    /\ LET after == Closed(1, pool)
       IN  IF server.connections = 0
           THEN /\ server' = [state |-> "closed", connections |-> 0, listeners |-> 0]
                /\ pool' = after.pool
                /\ exited' = after.exited
           ELSE /\ server' = [state |-> "closing", connections |-> server.connections,
                              listeners |-> server.listeners + 1]
                /\ UNCHANGED <<pool, exited>>
    /\ UNCHANGED Elsewhere

\* a timer armed by gracefulShutdown fires: process.exit(1)
Timeout ==
    /\ exited = <<>>
    /\ signals # <<>>
    /\ exited' = <<1>>
    /\ UNCHANGED <<Elsewhere, server, pool, signals>>

NextShutdown ==
    \/ Connect
    \/ Acquire
    \/ Disconnect
    \/ Release
    \/ gracefulShutdown
    \/ Timeout

SpecShutdown == InitShutdown /\ [][NextShutdown]_vars

\* an armed timer fires unless the process has exited before
FairShutdown == SpecShutdown /\ WF_vars(Timeout)

(* C30: after SIGTERM or SIGINT the pool is closed only after the HTTP     *)
(* server has finished closing, and the process exits with code 0 only     *)
(* when both closures are complete and with code 1 only when they are not, *)
(* also when a second signal arrives during shutdown.                      *)
C30_ExitCodes ==
    /\ pool.state # "open" => server.state = "closed"
    /\ exited = <<0>> => server.state = "closed" /\ pool.state = "ended"
    /\ exited = <<1>> => ~(server.state = "closed" /\ pool.state = "ended")

\* the process has exited with 0 while the pool waits for a client
C30_ExitedEarly ==
    /\ exited = <<0>>
    /\ Len(signals) = 2
    /\ server.state = "closed"
    /\ pool = [state |-> "ending", clients |-> 1]

\* with a single signal the exit codes are as claimed
C30_SingleSignal == Len(signals) <= 1 => C30_ExitCodes

\* after a signal the process always eventually exits
C30_EventuallyExits == (signals # <<>>) ~> (exited # <<>>)

====
